---- MODULE Spec2Model ----
(***************************************************************************)
(* Verification model of Cbeam (acrion/Cbeam).                             *)
(*                                                                         *)
(* The subsystems are modelled with one specification each:               *)
(*   SpecMap        stable_interprocess_map over a fixed-capacity segment  *)
(*   SpecCMap       the same map called by several threads                 *)
(*   SpecSRB        stable_reference_buffer, RC map, delay_deallocation    *)
(*   SpecSRBC       stable_reference_buffer objects used by two threads    *)
(*   SpecTeardown   stable_reference_buffer around singleton shutdown      *)
(*   SpecCMapUpdate the map's update and update_or_insert                  *)
(*   SpecSingleton  singleton<T>::get and singleton_control                *)
(*   SpecSgOperational, SpecSgLifetime   singleton<T> instances, their     *)
(*                  types, handles and destruction                         *)
(*   SpecBuf        buffer(address, length_of_buffer)                      *)
(*   SpecNamedMutex named_recursive_mutex objects of one name              *)
(*   SpecShm        interprocess_shared_memory objects of one name         *)
(*   SpecSer        serialization::traits over one buffer                  *)
(*   SpecItemRegistry   item_registry                                      *)
(*   SpecMM, SpecMMD, SpecMMK, SpecMMO   message_manager and its workers:  *)
(*                  sending, disposal, bounded queues, pop order           *)
(*   SpecMMW, SpecMMJ   the same under fair scheduling: wait_until_empty   *)
(*                  and the join of a disposed handler's worker            *)
(*   SpecLogger     message_manager::set_logger and the logger calls       *)
(*   SpecSRBRaw     stable_reference_buffer made from a raw address        *)
(*   SpecSRBAppend  stable_reference_buffer::append inside/outside scopes  *)
(*   SpecSgDtor     singleton<T> whose ~T calls get or release             *)
(*   SpecSgThrow    singleton<T> whose T constructor throws                *)
(***************************************************************************)
EXTENDS Integers, Sequences, FiniteSets, TLC

VARIABLES
    \* ---- stable_interprocess_map<int,int> ----
    seg,        \* the bytes of the shared segment, as cells: count, k1, v1, k2, v2, ...
    plain,      \* reference: a plain in-memory std::map the same operations are applied to
    mapOp,      \* the last operation issued on the map, with its arguments
    mapRes,     \* what the last operation returned / which error it raised
    plainRes,   \* what the same operation returns on the plain map
    everExceeded, \* some mutation so far was refused because its encoding exceeds capacity
    \* ---- stable_reference_buffer ----
    rc,         \* _use_count: the RC map, address -> count; key 0 (nullptr) holds the initial count
    heap,       \* the addresses malloc has handed out and free has not taken back
    mem,        \* the bytes of each block
    inst,       \* the stable_reference_buffer objects: _buffer (0 is nullptr) and _size
    scopes,     \* per thread, the stack of live delay_deallocation objects
    tpc,        \* per thread, the constructor call it is inside of, if any
    scopesEver, \* number of delay_deallocation objects constructed so far
    srbOp,      \* the last stable_reference_buffer operation that completed
    \* ---- message_manager, one message id ----
    hasQueue,   \* _message_queues[id] holds a message_queue
    queue,      \* message_queue::queue, the payloads waiting
    busy,       \* message_queue::busy_count
    mtxT,       \* owner of _threads_mutex ("none" when free)
    mtxQs,      \* owner of _message_queues_mutex ("none" when free)
    pc,         \* per thread (caller or worker): where it is, with its locals
    running,    \* per handler, threaded_object::_running
    derived,    \* per handler, the message_handler part of the object is not destroyed yet
    cfg,        \* per handler, the arguments of add_handler: order, on_exception given or not
    status,     \* per payload: unsent, queued, taken (dequeued), handling, done
    handled,    \* per payload, how many times on_message was invoked with it
    nextP,      \* the next payload to be sent
    snap,       \* per caller of wait_until_empty, the payloads enqueued before it looked up the queue
    crashed,    \* std::terminate was called
    \* ---- stable_interprocess_map used by several threads ----
    cmtx,       \* owner of the named recursive mutex of the segment ("none" when free)
    cpc,        \* per thread: the map operation it is inside of, with its locals
    \* ---- singleton_control / singleton<T> ----
    sShutdown,  \* singleton_control::_shutdown
    sInstances, \* singleton_control::_instances: name -> the T object owned (0: no entry)
    sObjs,      \* number of T objects constructed so far
    spc,        \* per thread: the singleton call it is inside of
    sResetDone, \* reset() has returned and set_operational() was not called since
    sTypeOf,    \* per object id: the type T of the singleton<T> that made it
    sHandles,   \* per thread: the objects it holds a shared_ptr<T> to
    sDestroyed, \* per object id: how many times ~T has run
    srbCrashed, \* a stable_reference_buffer dereferenced the null RC map handle
    \* ---- stable_reference_buffer objects used by several threads ----
    rmtx,       \* owner of the RC map's named recursive mutex ("none" when free)
    rpc,        \* per thread: the operation it is inside of, with its locals
    tinst,      \* per thread, the _buffer of each of its own objects (0 is nullptr)
    badFree,    \* free was called on a block that was not allocated
    \* ---- buffer(address, length_of_buffer) ----
    bufSrc,     \* the length_of_buffer bytes at address
    bufMem,     \* the bytes of the block _buffer points to (offsets 0 .. _size-1)
    bufSize,    \* _size
    bufOutside, \* offsets from _buffer, outside the block, that were written
    bufpc,      \* position of the constructor
    \* ---- named_recursive_mutex (POSIX branch), one name ----
    nmMutex,    \* the pthread_mutex_t in the named shared memory object
    nmObjs,     \* per thread: its live named_recursive_mutex objects of that name
    nmHeld,     \* per thread: lock() calls that returned, minus its unlock() calls
    \* ---- interprocess_shared_memory (POSIX branch), one identifier ----
    shmName,    \* the shared memory object the name "/s_<identifier>" refers to (0: none)
    shmSegs,    \* the shared memory objects created so far, each a sequence of bytes
    shmObjs,    \* per holder: the object its region maps and the region's size
    \* ---- serialization::traits: values written to and read from one buffer ----
    serVals,    \* the values the caller serializes, in order
    serStream,  \* the bytes of the buffer
    serEnds,    \* the size of the buffer after each serialize
    serOut,     \* the values deserialized so far
    serIt,      \* the cursor `it`, as an offset from the start of the buffer
    \* ---- lifecycle::item_registry ----
    irMax,      \* _max_number_of_items, or NotConstructed
    irNext,     \* _next_item_number
    irAvail,    \* _available_numbers
    irLive,     \* per identifier: the live registrations holding it
    irOp,       \* the last call and what it returned or threw
    \* ---- message_manager::set_logger, several message ids ----
    lgQueues,   \* _message_queues: per id no element, a null pointer or a message_queue
    lgPc,       \* per thread: where it is in send_message or set_logger
    lgCalls     \* the calls made so far of loggers and of handlers' _on_message

mapVars == <<seg, plain, mapOp, mapRes, plainRes, everExceeded>>

srbVars == <<rc, heap, mem, inst, scopes, tpc, scopesEver, srbOp>>

mmVars == <<hasQueue, queue, busy, mtxT, mtxQs, pc, running, derived, cfg,
            status, handled, nextP, snap, crashed>>

vars == <<seg, plain, mapOp, mapRes, plainRes, everExceeded,
          rc, heap, mem, inst, scopes, tpc, scopesEver, srbOp,
          hasQueue, queue, busy, mtxT, mtxQs, pc, running, derived, cfg,
          status, handled, nextP, snap, crashed,
          cmtx, cpc,
          sShutdown, sInstances, sObjs, spc, sResetDone, srbCrashed,
          sTypeOf, sHandles, sDestroyed,
          rmtx, rpc, tinst, badFree,
          bufSrc, bufMem, bufSize, bufOutside, bufpc,
          nmMutex, nmObjs, nmHeld,
          shmName, shmSegs, shmObjs,
          serVals, serStream, serEnds, serOut, serIt,
          irMax, irNext, irAvail, irLive, irOp,
          lgQueues, lgPc, lgCalls>>

cmapVars == <<cmtx, cpc>>

srbcVars == <<rmtx, rpc, tinst, badFree>>

bufVars == <<bufSrc, bufMem, bufSize, bufOutside, bufpc>>

serVars == <<serVals, serStream, serEnds, serOut, serIt>>

irVars == <<irMax, irNext, irAvail, irLive, irOp>>

lgVars == <<lgQueues, lgPc, lgCalls>>
nmVars == <<nmMutex, nmObjs, nmHeld, shmName, shmSegs, shmObjs, serVars, irVars, lgVars>>

sgVars == <<sShutdown, sInstances, sObjs, spc, sResetDone, srbCrashed,
            sTypeOf, sHandles, sDestroyed>>

\* each subsystem's steps leave the other subsystems alone
OnlyMap == UNCHANGED <<nmVars, srbVars, mmVars, cmapVars, sgVars, srbcVars, bufVars>>
OnlySRB == UNCHANGED <<nmVars, mapVars, mmVars, cmapVars, sgVars, srbcVars, bufVars>>
OnlyMM == UNCHANGED <<nmVars, mapVars, srbVars, cmapVars, sgVars, srbcVars, bufVars>>
OnlyCMap == UNCHANGED <<nmVars, mapOp, mapRes, plainRes, everExceeded, srbVars, mmVars, sgVars,
                        srbcVars, bufVars>>
OnlySingleton == UNCHANGED <<nmVars, mapVars, srbVars, mmVars, cmapVars, srbCrashed, srbcVars,
                             bufVars>>
OnlySRBC == UNCHANGED <<nmVars, mapVars, mmVars, cmapVars, sgVars, bufVars,
                        mem, inst, scopes, tpc, scopesEver, srbOp>>
OnlyBuf == UNCHANGED <<nmVars, mapVars, srbVars, mmVars, cmapVars, sgVars, srbcVars>>
OnlyNamedMutex == UNCHANGED <<mapVars, srbVars, mmVars, cmapVars, sgVars, srbcVars, bufVars,
                              shmName, shmSegs, shmObjs, serVars, irVars, lgVars>>
OnlyShm == UNCHANGED <<mapVars, srbVars, mmVars, cmapVars, sgVars, srbcVars, bufVars,
                       nmMutex, nmObjs, nmHeld, serVars, irVars, lgVars>>
OnlySer == UNCHANGED <<mapVars, srbVars, mmVars, cmapVars, sgVars, srbcVars, bufVars,
                       nmMutex, nmObjs, nmHeld, shmName, shmSegs, shmObjs, irVars, lgVars>>
OnlyItemRegistry == UNCHANGED <<mapVars, srbVars, mmVars, cmapVars, sgVars, srbcVars, bufVars,
                                nmMutex, nmObjs, nmHeld, shmName, shmSegs, shmObjs, serVars,
                                lgVars>>
OnlyLogger == UNCHANGED <<mapVars, srbVars, mmVars, cmapVars, sgVars, srbcVars, bufVars,
                          nmMutex, nmObjs, nmHeld, shmName, shmSegs, shmObjs, serVars,
                          irVars>>

(***************************************************************************)
(* Bounds of the model.                                                    *)
(***************************************************************************)
SegCapacity == 24    \* the size in bytes the segment is created with
MaxVal == 1          \* values are 0..MaxVal
MaxAddr == 2         \* the allocator hands out addresses 1..MaxAddr
MaxInst == 2         \* stable_reference_buffer objects 1..MaxInst
MaxSize == 2         \* a buffer grows to at most MaxSize bytes
MaxScopeEntries == 2
MaxSends == 2
MaxQueued == 1 \* delay_deallocation objects constructed in one run

(***************************************************************************)
(* serialization::traits<T> for standard-layout types: sizeof(val) raw     *)
(* bytes. map_serializer writes a size_t count, then key, value per pair.  *)
(***************************************************************************)
SizeofSizeT == 8
SizeofKey == 4
SizeofValue == 4

\* interprocess_shared_memory::capacity(): the byte size the segment was mapped with
capacity == SegCapacity

\* the number of pairs whose encoding fits the segment
MaxPairs == (capacity - SizeofSizeT) \div (SizeofKey + SizeofValue)

\* keys are 1..MaxKey: one more key than the segment holds
MaxKey == MaxPairs + 1

\* initializer lists have at most MaxListLen items
MaxListLen == MaxPairs

Keys == 1..MaxKey
Vals == 0..MaxVal

\* number of cells of the segment image (one cell per serialized field)
SegCells == 1 + 2 * MaxPairs

EmptyMap == [x \in {} |-> 0]

MapPut(m, k, v) == [x \in (DOMAIN m) \cup {k} |-> IF x = k THEN v ELSE m[x]]

MapDel(m, k) == [x \in (DOMAIN m) \ {k} |-> m[x]]

\* std::map iterates in ascending key order
RECURSIVE SortedKeys(_)
SortedKeys(S) ==
    IF S = {} THEN <<>>
    ELSE LET lo == CHOOSE x \in S : \A y \in S : x <= y
         IN  <<lo>> \o SortedKeys(S \ {lo})

RECURSIVE EncodePairs(_, _)
EncodePairs(m, ks) ==
    IF ks = <<>> THEN <<>>
    ELSE <<Head(ks), m[Head(ks)]>> \o EncodePairs(m, Tail(ks))

\* map_serializer::serialize: the count, then each pair in iteration order
map_serialize(m) == <<Cardinality(DOMAIN m)>> \o EncodePairs(m, SortedKeys(DOMAIN m))

\* buffer::size() of the serialized map, in bytes
EncodedSize(m) == SizeofSizeT + Cardinality(DOMAIN m) * (SizeofKey + SizeofValue)

\* map_serializer::deserialize: clear, read the count, then insert count pairs
\* (std::map::insert keeps an already present key)
RECURSIVE DeserializePairs(_, _, _, _)
DeserializePairs(s, i, n, acc) ==
    IF i >= n THEN acc
    ELSE LET key == s[2 + 2 * i]
             value == s[3 + 2 * i]
         IN  DeserializePairs(s, i + 1, n,
                 IF key \in DOMAIN acc THEN acc ELSE MapPut(acc, key, value))

deserialize(s) == DeserializePairs(s, 0, s[1], EmptyMap)

\* a serialize that gives up the committed image when the staged one is too large
serialize_mutant_wipe(m, s) ==
    LET staged == map_serialize(m)
    IN  IF EncodedSize(m) > capacity
        THEN [ok |-> FALSE, seg |-> [k \in DOMAIN s |-> 0]]
        ELSE [ok |-> TRUE, seg |-> staged \o SubSeq(s, Len(staged) + 1, Len(s))]

\* stable_interprocess_container::serialize: stage into a buffer, check the size
\* against capacity(), and only then memcpy the staged bytes over the segment's start
serialize(m, s) ==
    LET staged == map_serialize(m)
    IN  IF EncodedSize(m) > capacity
        THEN [ok |-> FALSE, seg |-> s]
        ELSE [ok |-> TRUE, seg |-> staged \o SubSeq(s, Len(staged) + 1, Len(s))]

\* user-supplied updater functions (std::function<void(Value&)>)
Updaters == {"inc", "zero"}

ApplyUpdater(u, v) == IF u = "inc" THEN (v + 1) % (MaxVal + 1) ELSE 0

\* initializer lists: any keys, repeated keys included; the i-th item carries value
\* i mod (MaxVal + 1), so that a repeated key comes with different values
KeyLists == UNION {[1..n -> Keys] : n \in 0..MaxListLen}

InitLists == {[i \in DOMAIN ks |-> <<ks[i], i % (MaxVal + 1)>>] : ks \in KeyLists}

\* operator=(initializer_list): local_instance[item.first] = item.second, in order
RECURSIVE FromList(_, _)
FromList(list, acc) ==
    IF list = <<>> THEN acc
    ELSE FromList(Tail(list), MapPut(acc, Head(list)[1], Head(list)[2]))

\* foreach: the pairs of the snapshot in iteration order
Items(m) == [i \in 1..Cardinality(DOMAIN m) |->
                <<SortedKeys(DOMAIN m)[i], m[SortedKeys(DOMAIN m)[i]]>>]

(***************************************************************************)
(* Results of an operation: a returned value, or the exception thrown.     *)
(***************************************************************************)
Done == [done |-> TRUE]
RetInt(n) == [int |-> n]
RetBool(b) == [bool |-> b]
RetItems(q) == [items |-> q]
Thrown(e) == [thrown |-> e]

(***************************************************************************)
(* Mutations. Each one is lock -> deserialize -> mutate -> serialize; when *)
(* serialize throws, the operation ends with the runtime error. The plain  *)
(* map has no capacity: it applies every operation, and is no longer       *)
(* followed once a mutation of the segment has been refused.               *)
(***************************************************************************)
Commit(local, issued, plainNext) ==
    LET r == serialize(local, seg)
    IN  /\ seg' = r.seg
        /\ mapOp' = issued
        /\ mapRes' = IF r.ok THEN Done ELSE Thrown("capacity_exceeded")
        /\ everExceeded' = (everExceeded \/ ~r.ok)
        /\ plain' = IF everExceeded' THEN plain ELSE plainNext
        /\ plainRes' = Done
        /\ OnlyMap

insert_mutant_keep(key, value) ==
    LET local == deserialize(seg)
    IN  Commit(IF key \in DOMAIN local THEN local ELSE MapPut(local, key, value),
               [op |-> "insert", key |-> key],
               MapPut(plain, key, value))

insert(key, value) ==
    Commit(MapPut(deserialize(seg), key, value),
           [op |-> "insert", key |-> key],
           MapPut(plain, key, value))

erase(key) ==
    Commit(MapDel(deserialize(seg), key),
           [op |-> "erase", key |-> key],
           MapDel(plain, key))

clear ==
    Commit(EmptyMap, [op |-> "clear"], EmptyMap)

assign(list) ==
    Commit(FromList(list, EmptyMap), [op |-> "assign"],
           FromList(list, EmptyMap))

\* the updater runs on an existing value; otherwise default_value is stored as it is
UpdateOrInsertLocal(m, key, updater, default_value) ==
    IF key \in DOMAIN m
    THEN MapPut(m, key, ApplyUpdater(updater, m[key]))
    ELSE MapPut(m, key, default_value)

update_or_insert(key, updater, default_value) ==
    Commit(UpdateOrInsertLocal(deserialize(seg), key, updater, default_value),
           [op |-> "update_or_insert", key |-> key],
           UpdateOrInsertLocal(plain, key, updater, default_value))

update(key, updater) ==
    LET local == deserialize(seg)
        next == MapPut(local, key, ApplyUpdater(updater, local[key]))
        r == serialize(next, seg)
        found == key \in DOMAIN local
    IN  /\ mapOp' = [op |-> "update", key |-> key]
        /\ seg' = IF found THEN r.seg ELSE seg
        /\ mapRes' = IF ~found THEN Thrown("key_missing")
                     ELSE IF r.ok THEN RetInt(next[key])
                     ELSE Thrown("capacity_exceeded")
        /\ everExceeded' = (everExceeded \/ (found /\ ~r.ok))
        /\ plain' = IF key \in DOMAIN plain /\ ~everExceeded'
                    THEN MapPut(plain, key, ApplyUpdater(updater, plain[key]))
                    ELSE plain
        /\ plainRes' = IF key \in DOMAIN plain
                       THEN RetInt(ApplyUpdater(updater, plain[key]))
                       ELSE Thrown("key_missing")
        /\ OnlyMap

(***************************************************************************)
(* Reads: lock -> deserialize -> unlock -> answer from the snapshot.       *)
(***************************************************************************)
Read(issued, res, ref) ==
    /\ mapOp' = issued
    /\ mapRes' = res
    /\ plainRes' = ref
    /\ UNCHANGED <<seg, plain, everExceeded>>
    /\ OnlyMap

at(key) ==
    LET local == deserialize(seg)
    IN  Read([op |-> "at", key |-> key],
             IF key \in DOMAIN local THEN RetInt(local[key]) ELSE Thrown("out_of_range"),
             IF key \in DOMAIN plain THEN RetInt(plain[key]) ELSE Thrown("out_of_range"))

at_or_default(key, default_value) ==
    LET local == deserialize(seg)
    IN  Read([op |-> "at_or_default", key |-> key],
             RetInt(IF key \in DOMAIN local THEN local[key] ELSE default_value),
             RetInt(IF key \in DOMAIN plain THEN plain[key] ELSE default_value))

count(key) ==
    Read([op |-> "count", key |-> key],
         RetInt(IF key \in DOMAIN deserialize(seg) THEN 1 ELSE 0),
         RetInt(IF key \in DOMAIN plain THEN 1 ELSE 0))

size ==
    Read([op |-> "size"], RetInt(Cardinality(DOMAIN deserialize(seg))),
         RetInt(Cardinality(DOMAIN plain)))

empty ==
    Read([op |-> "empty"], RetBool(deserialize(seg) = EmptyMap), RetBool(plain = EmptyMap))

foreach ==
    Read([op |-> "foreach"], RetItems(Items(deserialize(seg))), RetItems(Items(plain)))

(***************************************************************************)
(* The map's specification. A new POSIX segment is zero-filled, which      *)
(* deserializes to the empty map.                                          *)
(***************************************************************************)
InitMap ==
    /\ seg = [i \in 1..SegCells |-> 0]
    /\ plain = EmptyMap
    /\ mapOp = [op |-> "none"]
    /\ mapRes = Done
    /\ plainRes = Done
    /\ everExceeded = FALSE

MapStep ==
    \/ \E k \in Keys, v \in Vals : insert(k, v)
    \/ \E k \in Keys : erase(k)
    \/ clear
    \/ \E l \in InitLists : assign(l)
    \/ \E k \in Keys, u \in Updaters, d \in Vals : update_or_insert(k, u, d)
    \/ \E k \in Keys, u \in Updaters : update(k, u)
    \/ \E k \in Keys : at(k)
    \/ \E k \in Keys, d \in Vals : at_or_default(k, d)
    \/ \E k \in Keys : count(k)
    \/ size
    \/ empty
    \/ foreach

NextMap == MapStep


(***************************************************************************)
(* stable_reference_buffer. The RC map is the process-wide singleton       *)
(* stable_interprocess_map<uint8_t*, int>; at the model's sizes its 64 KiB *)
(* segment is never full, so its operations are the map operations above   *)
(* on the deserialized map. Every RC map operation takes the RC lock; the  *)
(* operations that hold a lock guard for their whole body are one step.    *)
(***************************************************************************)
Addrs == 1..MaxAddr
Insts == 1..MaxInst
SrbThreads == {"t1", "t2"}
Bytes == {2}

\* the byte pattern user code writes into a freshly allocated block
FillByte == 1

NoBuffer == [buf |-> 0, size |-> 0]
Idle == [pc |-> "idle"]

\* stable_interprocess_map::at_or_default on the RC map
RcAtOrDefault(key, default_value) == IF key \in DOMAIN rc THEN rc[key] ELSE default_value

\* get_initial_use_count: the key nullptr stores the initial use count
get_initial_use_count == RcAtOrDefault(0, 1)

\* is_known(address): nullptr is never known
is_known(address) == address # 0 /\ address \in DOMAIN rc

\* use_count(): 0 without a buffer or for an unknown buffer
use_count(i) == IF inst[i].buf = 0 THEN 0 ELSE RcAtOrDefault(inst[i].buf, 0)

\* number of objects whose _buffer is the address
Refs(a) == Cardinality({i \in Insts : inst[i].buf = a})

\* the ids of the delay_deallocation objects alive in any thread
LiveScopeIds == UNION {{scopes[t][k].id : k \in DOMAIN scopes[t]} : t \in SrbThreads}

\* an object slot that a constructor call in flight is about to fill
Reserved(i) == \E t \in SrbThreads : tpc[t].pc = "ctor" /\ tpc[t].i = i

\* the bytes read from a block; a freed block yields indeterminate bytes (0)
ReadBytes(a, n) == [k \in 1..n |-> IF a \in heap /\ k <= Len(mem[a]) THEN mem[a][k] ELSE 0]

\* scopes: record in every live scope of `ids` that the block at address a was
\* created while the scope was active
NoteBorn(sc, ids, a) ==
    [t \in SrbThreads |->
        [k \in DOMAIN sc[t] |->
            IF sc[t][k].id \in ids
            THEN [sc[t][k] EXCEPT !.born = @ \cup {a}]
            ELSE sc[t][k]]]

\* the block at `old` now lives at `new` (realloc moved it)
NoteMoved(sc, old, new) ==
    [t \in SrbThreads |->
        [k \in DOMAIN sc[t] |->
            IF old \in sc[t][k].born
            THEN [sc[t][k] EXCEPT !.born = (@ \ {old}) \cup {new}]
            ELSE sc[t][k]]]

Other == [op |-> "other"]

\* the contents of the allocated blocks; what a freed block holds is indeterminate
\* and is never looked at again
Scrub(m, h) == [a \in Addrs |-> IF a \in h THEN m[a] ELSE <<>>]

\* stable_reference_buffer(size, size_of_type) and stable_reference_buffer(const buffer&):
\* the base class allocates (and, from a buffer, deep-copies) the block; then the
\* arguments of update_or_insert are evaluated, get_initial_use_count() among them
construct_begin(t, i) ==
    /\ OnlySRB
    /\ tpc[t] = Idle
    /\ inst[i] = NoBuffer
    /\ ~Reserved(i)
    /\ \E a \in Addrs \ heap :
        /\ heap' = heap \cup {a}
        /\ mem' = [mem EXCEPT ![a] = <<FillByte>>]
        /\ tpc' = [tpc EXCEPT ![t] = [pc |-> "ctor", i |-> i, addr |-> a,
                                      initial |-> get_initial_use_count,
                                      active |-> LiveScopeIds]]
    /\ srbOp' = Other
    /\ UNCHANGED <<rc, inst, scopes, scopesEver>>

\* _use_count->update_or_insert(_buffer, ++count, initial)
construct_end(t) ==
    /\ OnlySRB
    /\ tpc[t].pc = "ctor"
    /\ LET a == tpc[t].addr
       IN  /\ rc' = MapPut(rc, a, IF a \in DOMAIN rc THEN rc[a] + 1 ELSE tpc[t].initial)
           /\ inst' = [inst EXCEPT ![tpc[t].i] = [buf |-> a, size |-> 1]]
           /\ scopes' = NoteBorn(scopes, tpc[t].active \cap LiveScopeIds, a)
    /\ tpc' = [tpc EXCEPT ![t] = Idle]
    /\ srbOp' = Other
    /\ UNCHANGED <<heap, mem, scopesEver>>

\* stable_reference_buffer(const stable_reference_buffer& other). When update throws
\* (the key is missing), the constructor is left by the exception and the base class
\* destructor ~buffer() frees _buffer, which is other's block.
copy_construct(i, other) ==
    /\ OnlySRB
    /\ i # other
    /\ inst[i] = NoBuffer
    /\ ~Reserved(i)
    /\ inst[other].buf # 0
    /\ IF inst[other].buf \in DOMAIN rc
       THEN /\ rc' = MapPut(rc, inst[other].buf, rc[inst[other].buf] + 1)
            /\ inst' = [inst EXCEPT ![i] = inst[other]]
            /\ UNCHANGED heap
       ELSE /\ heap' = heap \ {inst[other].buf}
            /\ UNCHANGED <<rc, inst>>
    /\ mem' = Scrub(mem, heap')
    /\ srbOp' = Other
    /\ UNCHANGED <<scopes, tpc, scopesEver>>

\* explicit stable_reference_buffer(const void* address), called with an address
\* that another instance has registered: size() stays 0
\* a raw-address constructor that takes the block's size to be one byte
raw_construct_mutant_sized(i, address) ==
    /\ OnlySRB
    /\ inst[i] = NoBuffer
    /\ ~Reserved(i)
    /\ is_known(address)
    /\ rc' = MapPut(rc, address, rc[address] + 1)
    /\ inst' = [inst EXCEPT ![i] = [buf |-> address, size |-> 1]]
    /\ srbOp' = Other
    /\ UNCHANGED <<heap, mem, scopes, tpc, scopesEver>>

raw_construct(i, address) ==
    /\ OnlySRB
    /\ inst[i] = NoBuffer
    /\ ~Reserved(i)
    /\ is_known(address)
    /\ rc' = MapPut(rc, address, rc[address] + 1)
    /\ inst' = [inst EXCEPT ![i] = [buf |-> address, size |-> 0]]
    /\ srbOp' = Other
    /\ UNCHANGED <<heap, mem, scopes, tpc, scopesEver>>

\* reset() as a function of the RC map and the heap: the state after the call
ResetRc(m, b) ==
    IF b # 0 /\ b \in DOMAIN m
    THEN IF m[b] - 1 = 0 THEN MapDel(m, b) ELSE MapPut(m, b, m[b] - 1)
    ELSE m

ResetHeap_mutant_nofree(m, h, b) == h

ResetHeap(m, h, b) ==
    IF b # 0 /\ b \in DOMAIN m /\ m[b] - 1 = 0 THEN h \ {b} ELSE h

\* reset() noexcept, also run by the destructor
reset(i) ==
    /\ OnlySRB
    /\ inst[i].buf # 0
    /\ rc' = ResetRc(rc, inst[i].buf)
    /\ heap' = ResetHeap(rc, heap, inst[i].buf)
    /\ inst' = [inst EXCEPT ![i] = NoBuffer]
    /\ mem' = Scrub(mem, heap')
    /\ srbOp' = Other
    /\ UNCHANGED <<scopes, tpc, scopesEver>>

\* operator=(const stable_reference_buffer& other): reset(), take over other's
\* fields, then update(++count), which throws when the key is missing
copy_assign(i, other) ==
    /\ OnlySRB
    /\ i # other
    /\ ~Reserved(i)
    /\ inst[other].buf # 0
    /\ LET rc1 == ResetRc(rc, inst[i].buf)
           b == inst[other].buf
       IN  /\ heap' = ResetHeap(rc, heap, inst[i].buf)
           /\ inst' = [inst EXCEPT ![i] = inst[other]]
           /\ rc' = IF b \in DOMAIN rc1 THEN MapPut(rc1, b, rc1[b] + 1) ELSE rc1
    /\ mem' = Scrub(mem, heap')
    /\ srbOp' = Other
    /\ UNCHANGED <<scopes, tpc, scopesEver>>

\* append, copy-on-write path: other instances still reference the old block
append_cow_mutant_inplace(i, data) ==
    LET b == inst[i].buf
        n == inst[i].size
    IN  /\ mem' = [mem EXCEPT ![b] = ReadBytes(b, n) \o <<data>>]
        /\ inst' = [inst EXCEPT ![i] = [buf |-> b, size |-> n + 1]]
        /\ UNCHANGED <<rc, heap, scopes>>

append_cow(i, data) ==
    LET b == inst[i].buf
        n == inst[i].size
        remaining == rc[b] - 1
    IN  \E new_buf \in Addrs \ heap :
          /\ heap' = (IF remaining = 0 THEN heap \ {b} ELSE heap) \cup {new_buf}
          /\ mem' = Scrub([mem EXCEPT ![new_buf] = ReadBytes(b, n) \o <<data>>], heap')
          /\ rc' = MapPut(IF remaining = 0 THEN MapDel(rc, b) ELSE MapPut(rc, b, remaining),
                          new_buf, get_initial_use_count)
          /\ inst' = [inst EXCEPT ![i] = [buf |-> new_buf, size |-> n + 1]]
          /\ scopes' = NoteBorn(scopes, LiveScopeIds, new_buf)

\* an exclusive append that leaves the entry of the old address in the RC map
append_exclusive_mutant_keep_old(i, data) ==
    LET old == inst[i].buf
        n == inst[i].size
        old_count == IF old # 0 THEN RcAtOrDefault(old, get_initial_use_count) ELSE 0
    IN  \E new_buf \in (Addrs \ heap) \cup (IF old # 0 THEN {old} ELSE {}) :
          /\ heap' = (heap \ {old}) \cup {new_buf}
          /\ mem' = Scrub([mem EXCEPT ![new_buf] = ReadBytes(old, n) \o <<data>>], heap')
          /\ inst' = [inst EXCEPT ![i] = [buf |-> new_buf, size |-> n + 1]]
          /\ rc' = IF new_buf = old THEN rc
                   ELSE IF old # 0 THEN MapPut(rc, new_buf, old_count)
                   ELSE MapPut(rc, new_buf, get_initial_use_count)
          /\ scopes' = IF new_buf = old THEN scopes
                       ELSE IF old # 0 THEN NoteMoved(scopes, old, new_buf)
                       ELSE NoteBorn(scopes, LiveScopeIds, new_buf)

\* append, exclusive owner or no buffer yet: buffer::append reallocs, which may
\* move the block; a moved block takes its count to the new address
append_exclusive(i, data) ==
    LET old == inst[i].buf
        n == inst[i].size
        old_count == IF old # 0 THEN RcAtOrDefault(old, get_initial_use_count) ELSE 0
    IN  \E new_buf \in (Addrs \ heap) \cup (IF old # 0 THEN {old} ELSE {}) :
          /\ heap' = (heap \ {old}) \cup {new_buf}
          /\ mem' = Scrub([mem EXCEPT ![new_buf] = ReadBytes(old, n) \o <<data>>], heap')
          /\ inst' = [inst EXCEPT ![i] = [buf |-> new_buf, size |-> n + 1]]
          /\ rc' = IF new_buf = old THEN rc
                   ELSE IF old # 0 THEN MapDel(MapPut(rc, new_buf, old_count), old)
                   ELSE MapPut(rc, new_buf, get_initial_use_count)
          /\ scopes' = IF new_buf = old THEN scopes
                       ELSE IF old # 0 THEN NoteMoved(scopes, old, new_buf)
                       ELSE NoteBorn(scopes, LiveScopeIds, new_buf)

\* append(data, len), the whole body under the RC lock
append(i, data) ==
    /\ OnlySRB
    /\ ~Reserved(i)
    /\ inst[i].size < MaxSize
    /\ IF inst[i].size = 0 /\ inst[i].buf # 0
       THEN /\ srbOp' = [op |-> "append", i |-> i, data |-> data, thrown |-> TRUE]
            /\ UNCHANGED <<rc, heap, mem, inst, scopes>>
       ELSE /\ srbOp' = [op |-> "append", i |-> i, data |-> data, thrown |-> FALSE]
            /\ IF inst[i].buf # 0 /\ RcAtOrDefault(inst[i].buf, 0) > 1
               THEN append_cow(i, data)
               ELSE append_exclusive(i, data)
    /\ UNCHANGED <<tpc, scopesEver>>

\* swap(stable_reference_buffer& other)
swap(i, other) ==
    /\ OnlySRB
    /\ i < other
    /\ ~Reserved(i) /\ ~Reserved(other)
    /\ inst[i] # inst[other]
    /\ inst' = [inst EXCEPT ![i] = inst[other], ![other] = inst[i]]
    /\ srbOp' = Other
    /\ UNCHANGED <<rc, heap, mem, scopes, tpc, scopesEver>>

\* delay_deallocation(): the member initializers read the initial count before the
\* constructor body takes the RC lock
delay_deallocation_begin(t) ==
    /\ OnlySRB
    /\ tpc[t] = Idle
    /\ scopesEver < MaxScopeEntries
    /\ tpc' = [tpc EXCEPT ![t] = [pc |-> "scope", id |-> scopesEver + 1,
                                  initial_on_entry |-> get_initial_use_count]]
    /\ scopesEver' = scopesEver + 1
    /\ srbOp' = Other
    /\ UNCHANGED <<rc, heap, mem, inst, scopes>>

\* the constructor body: remember every key of the RC map, raise the initial count
delay_deallocation_enter(t) ==
    /\ OnlySRB
    /\ tpc[t].pc = "scope"
    /\ scopes' = [scopes EXCEPT ![t] = Append(@, [id |-> tpc[t].id,
                                                   old_entries |-> DOMAIN rc,
                                                   initial_on_entry |-> tpc[t].initial_on_entry,
                                                   born |-> {}])]
    /\ rc' = MapPut(rc, 0, tpc[t].initial_on_entry + 1)
    /\ tpc' = [tpc EXCEPT ![t] = Idle]
    /\ srbOp' = Other
    /\ UNCHANGED <<heap, mem, inst, scopesEver>>

\* ~delay_deallocation(): decrement every address that is not in _old_entries, free
\* and erase those that reach zero, restore the initial count; scopes of one thread
\* are destroyed innermost first
delay_deallocation_exit(t) ==
    /\ OnlySRB
    /\ tpc[t] = Idle
    /\ scopes[t] # <<>>
    /\ LET s == scopes[t][Len(scopes[t])]
           new_entries == (DOMAIN rc \ {0}) \ s.old_entries
           freed == {ptr \in new_entries : rc[ptr] - 1 = 0}
           kept == (DOMAIN rc \ freed) \cup {0}
       IN  /\ rc' = [k \in kept |->
                        IF k = 0 THEN s.initial_on_entry
                        ELSE IF k \in new_entries THEN rc[k] - 1
                        ELSE rc[k]]
           /\ heap' = heap \ freed
    /\ mem' = Scrub(mem, heap')
    /\ scopes' = [scopes EXCEPT ![t] = SubSeq(@, 1, Len(@) - 1)]
    /\ srbOp' = Other
    /\ UNCHANGED <<inst, tpc, scopesEver>>

InitSRB ==
    /\ rc = EmptyMap
    /\ heap = {}
    /\ mem = [a \in Addrs |-> <<>>]
    /\ inst = [i \in Insts |-> NoBuffer]
    /\ scopes = [t \in SrbThreads |-> <<>>]
    /\ tpc = [t \in SrbThreads |-> Idle]
    /\ scopesEver = 0
    /\ srbOp = Other

SrbStep ==
    \/ \E t \in SrbThreads, i \in Insts : construct_begin(t, i)
    \/ \E t \in SrbThreads : construct_end(t)
    \/ \E i \in Insts, j \in Insts : copy_construct(i, j)
    \/ \E i \in Insts, a \in Addrs : raw_construct(i, a)
    \/ \E i \in Insts : reset(i)
    \/ \E i \in Insts, j \in Insts : copy_assign(i, j)
    \/ \E i \in Insts, d \in Bytes : append(i, d)
    \/ \E i \in Insts, j \in Insts : swap(i, j)
    \/ \E t \in SrbThreads : delay_deallocation_begin(t)
    \/ \E t \in SrbThreads : delay_deallocation_enter(t)
    \/ \E t \in SrbThreads : delay_deallocation_exit(t)

NextSRB == SrbStep

\* allocation, copies, resets and appends inside and outside of scopes
NextSRBAppend ==
    \/ \E t \in SrbThreads, i \in Insts : construct_begin(t, i)
    \/ \E t \in SrbThreads : construct_end(t)
    \/ \E i \in Insts, j \in Insts : copy_construct(i, j)
    \/ \E i \in Insts : reset(i)
    \/ \E i \in Insts, d \in Bytes : append(i, d)
    \/ \E t \in SrbThreads : delay_deallocation_begin(t)
    \/ \E t \in SrbThreads : delay_deallocation_enter(t)
    \/ \E t \in SrbThreads : delay_deallocation_exit(t)

\* blocks that a plain container::buffer allocated: in the heap, in no RC entry and
\* of no constructor that is under way
Unregistered ==
    {a \in heap : a \notin DOMAIN rc
                  /\ \A t \in SrbThreads : tpc[t].pc = "ctor" => tpc[t].addr # a}

\* container::buffer(size): malloc without any RC entry
plain_buffer(a) ==
    /\ OnlySRB
    /\ a \notin heap
    /\ heap' = heap \cup {a}
    /\ mem' = [mem EXCEPT ![a] = <<FillByte>>]
    /\ srbOp' = Other
    /\ UNCHANGED <<rc, inst, scopes, tpc, scopesEver>>

\* explicit stable_reference_buffer(const void* address) with an address that has
\* no RC entry: _buffer = address, update() throws, and the unwinding runs ~buffer
\* on the constructed base, whose buffer::reset calls free(_buffer); the instance
\* never exists. free(nullptr) does nothing.
raw_construct_unknown(i, address) ==
    /\ OnlySRB
    /\ inst[i] = NoBuffer
    /\ ~Reserved(i)
    /\ address \notin DOMAIN rc
    /\ address \in Unregistered \cup {0}
    /\ heap' = heap \ {address}
    /\ mem' = Scrub(mem, heap')
    /\ srbOp' = [op |-> "raw_throw", addr |-> address]
    /\ UNCHANGED <<rc, inst, scopes, tpc, scopesEver>>

\* raw-address construction next to allocation, copies and resets
NextSRBRaw ==
    \/ \E t \in SrbThreads, i \in Insts : construct_begin(t, i)
    \/ \E t \in SrbThreads : construct_end(t)
    \/ \E i \in Insts, j \in Insts : copy_construct(i, j)
    \/ \E a \in Addrs : plain_buffer(a)
    \/ \E i \in Insts, a \in Addrs : raw_construct(i, a)
    \/ \E i \in Insts, a \in Addrs \cup {0} : raw_construct_unknown(i, a)
    \/ \E i \in Insts : reset(i)
    \/ \E i \in Insts, d \in Bytes : append(i, d)
    \/ \E i \in Insts, j \in Insts : swap(i, j)


(***************************************************************************)
(* message_manager<MessageDataType> for one message id, with the           *)
(* threaded_object workers of its handlers. Each step is what a thread     *)
(* does between two points where other threads can interfere: a whole      *)
(* critical section of the queue mutex is one step, since nothing blocks   *)
(* inside one (a wait on a condition variable releases the mutex and ends  *)
(* the step). Condition variables wake on notify_all only. No logger is    *)
(* set, so the logger calls have no effect.                                *)
(***************************************************************************)
Clients == {"c1", "c2"}
Handlers == {"h1", "h2"}
Threads == Clients \cup Handlers
Payloads == 1..MaxSends
Orders == {"FIFO", "FILO", "RANDOM"}
NoPayload == 0

AtRest == [pc |-> "idle"]
Unused == [pc |-> "unused"]

\* a thread returns from a call into the manager: a caller is idle again, a
\* handler (the call came from its _on_message) is back in on_message
Return(t) ==
    IF t \in Handlers THEN [pc |-> "m_ret", msg |-> pc[t].msg] ELSE AtRest

\* the payload a worker is handling while it calls into the manager
Msg(t) == IF t \in Handlers THEN pc[t].msg ELSE NoPayload

\* a thread may start a call: a caller between calls, or a handler inside _on_message
CanCall(t) ==
    IF t \in Handlers THEN pc[t].pc = "m_user" ELSE pc[t] = AtRest

\* a notify_all on queue_cv that wakes nobody
NotifyQueueCv_mutant_none(f) == f

\* condition_variable::notify_all on queue_cv: senders blocked on a full queue and
\* workers waiting for a message wake up and will re-acquire the queue mutex
NotifyQueueCv(f) ==
    [t \in Threads |->
        IF f[t].pc = "s_wait" THEN [f[t] EXCEPT !.pc = "s_Q"]
        ELSE IF f[t].pc = "h_wait" THEN [f[t] EXCEPT !.pc = "h_lock"]
        ELSE f[t]]

\* an on_message that never broadcasts on queue_cv_empty
NotifyCvEmpty_mutant_none(f) == f

\* notify_all on queue_cv_empty
NotifyCvEmpty(f) ==
    [t \in Threads |-> IF f[t].pc = "w_wait" THEN [f[t] EXCEPT !.pc = "w_Q"] ELSE f[t]]

\* send_message(id, data, max_queued_messages): the call and, under
\* _message_queues_mutex, the lookup or creation of the queue. A caller that finds
\* the mutex taken has not got further than the call; a worker that calls from
\* _on_message is inside the call from then on
send_message(t, k) ==
    /\ ~crashed /\ OnlyMM
    /\ CanCall(t)
    /\ nextP <= MaxSends
    /\ nextP' = nextP + 1
    /\ IF t \in Clients
       THEN /\ mtxQs = "none"
            /\ hasQueue' = TRUE
            /\ pc' = [pc EXCEPT ![t] = [pc |-> "s_Q", p |-> nextP, k |-> k, msg |-> NoPayload]]
       ELSE /\ pc' = [pc EXCEPT ![t] = [pc |-> "s_Qs", p |-> nextP, k |-> k, msg |-> Msg(t)]]
            /\ UNCHANGED hasQueue
    /\ UNCHANGED <<queue, busy, mtxT, mtxQs, running, derived, cfg,
                   status, handled, snap, crashed>>

\* send_message called from _on_message: the lookup or creation of the queue
send_find_queue(t) ==
    /\ ~crashed /\ OnlyMM
    /\ pc[t].pc = "s_Qs"
    /\ mtxQs = "none"
    /\ hasQueue' = TRUE
    /\ pc' = [pc EXCEPT ![t].pc = "s_Q"]
    /\ UNCHANGED <<queue, busy, mtxT, mtxQs, running, derived, cfg,
                   status, handled, nextP, snap, crashed>>

\* a sender that lets one payload too many in
HasRoom_mutant_le(max_queued_messages, q) ==
    max_queued_messages = 0 \/ Len(q) <= max_queued_messages

\* the predicate send_message waits for on queue_cv
HasRoom(max_queued_messages, q) ==
    max_queued_messages = 0 \/ Len(q) < max_queued_messages

\* send_message: under the queue mutex, queue_cv->wait(max == 0 || size < max),
\* then emplace_back
send_enqueue(t) ==
    /\ ~crashed /\ OnlyMM
    /\ pc[t].pc = "s_Q"
    /\ IF HasRoom(pc[t].k, queue)
       THEN /\ queue' = Append(queue, pc[t].p)
            /\ status' = [status EXCEPT ![pc[t].p] = "queued"]
            /\ pc' = [pc EXCEPT ![t].pc = "s_notify"]
       ELSE /\ pc' = [pc EXCEPT ![t].pc = "s_wait"]
            /\ UNCHANGED <<queue, status>>
    /\ UNCHANGED <<hasQueue, busy, mtxT, mtxQs, running, derived, cfg,
                   handled, nextP, snap, crashed>>

\* send_message: queue_cv->notify_all(), the logger call, return
send_notify(t) ==
    /\ ~crashed /\ OnlyMM
    /\ pc[t].pc = "s_notify"
    /\ pc' = [NotifyQueueCv(pc) EXCEPT ![t] = Return(t)]
    /\ UNCHANGED <<hasQueue, queue, busy, mtxT, mtxQs, running, derived, cfg,
                   status, handled, nextP, snap, crashed>>

\* the handler object the next add_handler creates
NextHandler ==
    IF pc["h1"] = Unused /\ \A g \in Handlers : pc[g].pc # "a_T" THEN "h1"
    ELSE IF pc["h2"] = Unused /\ \A g \in Handlers : pc[g].pc = "a_T" => pc[g].h # "h2" THEN "h2"
    ELSE "none"

\* the handler is constructed and its worker thread starts: on_start(), then the
\* loop, _running being true
Created(f, h) == [f EXCEPT ![h] = [pc |-> "h_lock"]]

\* add_handler(id, on_message, on_exception, on_exit, thread_name, order): under
\* _threads_mutex and _message_queues_mutex, make sure the queue exists and create
\* the handler. A worker that calls from _on_message is inside the call from then on
add_handler(t, h, order, on_exception) ==
    /\ ~crashed /\ OnlyMM
    /\ CanCall(t)
    /\ h = NextHandler
    /\ IF t \in Clients
       THEN /\ mtxT = "none" /\ mtxQs = "none"
            /\ hasQueue' = TRUE
            /\ running' = [running EXCEPT ![h] = TRUE]
            /\ derived' = [derived EXCEPT ![h] = TRUE]
            /\ cfg' = [cfg EXCEPT ![h] = [order |-> order, on_exception |-> on_exception]]
            /\ pc' = Created(pc, h)
       ELSE /\ pc' = [pc EXCEPT ![t] = [pc |-> "a_T", h |-> h, order |-> order,
                                        on_exception |-> on_exception, msg |-> Msg(t)]]
            /\ UNCHANGED <<hasQueue, running, derived, cfg>>
    /\ UNCHANGED <<queue, busy, mtxT, mtxQs, status, handled, nextP, snap, crashed>>

\* add_handler called from _on_message: both mutexes, the queue, the handler
add_handler_create(t) ==
    /\ ~crashed /\ OnlyMM
    /\ pc[t].pc = "a_T"
    /\ mtxT = "none" /\ mtxQs = "none"
    /\ hasQueue' = TRUE
    /\ running' = [running EXCEPT ![pc[t].h] = TRUE]
    /\ derived' = [derived EXCEPT ![pc[t].h] = TRUE]
    /\ cfg' = [cfg EXCEPT ![pc[t].h] = [order |-> pc[t].order,
                                        on_exception |-> pc[t].on_exception]]
    /\ pc' = Created([pc EXCEPT ![t] = Return(t)], pc[t].h)
    /\ UNCHANGED <<queue, busy, mtxT, mtxQs, status, handled, nextP, snap, crashed>>

\* the payloads that have been enqueued so far
Enqueued == {p \in Payloads : status[p] # "unsent"}

\* wait_until_empty(id): the call and, under _message_queues_mutex, the lookup of the
\* queue; without a queue the call returns at once
wait_until_empty(t) ==
    /\ ~crashed /\ OnlyMM
    /\ CanCall(t)
    /\ IF t \in Clients
       THEN /\ mtxQs = "none"
            /\ hasQueue
            /\ snap' = [snap EXCEPT ![t] = Enqueued]
            /\ pc' = [pc EXCEPT ![t] = [pc |-> "w_Q", msg |-> NoPayload]]
       ELSE /\ pc' = [pc EXCEPT ![t] = [pc |-> "w_Qs", msg |-> Msg(t)]]
            /\ UNCHANGED snap
    /\ UNCHANGED <<hasQueue, queue, busy, mtxT, mtxQs, running, derived, cfg,
                   status, handled, nextP, crashed>>

\* wait_until_empty called from _on_message: the lookup of the queue
wait_find_queue(t) ==
    /\ ~crashed /\ OnlyMM
    /\ pc[t].pc = "w_Qs"
    /\ mtxQs = "none"
    /\ snap' = [snap EXCEPT ![t] = Enqueued]
    /\ pc' = [pc EXCEPT ![t] = IF hasQueue THEN [pc |-> "w_Q", msg |-> Msg(t)]
                                           ELSE Return(t)]
    /\ UNCHANGED <<hasQueue, queue, busy, mtxT, mtxQs, running, derived, cfg,
                   status, handled, nextP, crashed>>

\* wait_until_empty: under the queue mutex, queue_cv_empty.wait(queue.empty() && busy == 0)
wait_check(t) ==
    /\ ~crashed /\ OnlyMM
    /\ pc[t].pc = "w_Q"
    /\ pc' = [pc EXCEPT ![t] = IF queue = <<>> /\ busy = 0
                               THEN [pc |-> "w_ret", msg |-> Msg(t)]
                               ELSE [pc |-> "w_wait", msg |-> Msg(t)]]
    /\ UNCHANGED <<hasQueue, queue, busy, mtxT, mtxQs, running, derived, cfg,
                   status, handled, nextP, snap, crashed>>

\* wait_until_empty: the queue mutex is released and the call returns
wait_return(t) ==
    /\ ~crashed /\ OnlyMM
    /\ pc[t].pc = "w_ret"
    /\ pc' = [pc EXCEPT ![t] = Return(t)]
    /\ snap' = [snap EXCEPT ![t] = {}]
    /\ UNCHANGED <<hasQueue, queue, busy, mtxT, mtxQs, running, derived, cfg,
                   status, handled, nextP, crashed>>

\* the virtual hooks a worker can reach: those of message_handler, or, once
\* ~message_handler has run and ~threaded_object has begun, those of threaded_object;
\* until the worker synchronises with the destructor (it sees _running false only after
\* that) the unsynchronised read of the object's dynamic type can yield either
Hooks(h) ==
    IF derived[h] THEN {"derived"}
    ELSE IF running[h] THEN {"derived", "base"}
    ELSE {"base"}

\* a get_message that pops the front whatever the order
PopChoices_mutant_front(order, q) == {1}

\* get_message: the index popped, by order_type
PopChoices(order, q) ==
    IF order = "FIFO" THEN {1}
    ELSE IF order = "FILO" THEN {Len(q)}
    ELSE 1..Len(q)

RemoveAt(q, idx) == SubSeq(q, 1, idx - 1) \o SubSeq(q, idx + 1, Len(q))

\* get_message: busy_count.fetch_add(1) after the pop
BusyAfterGet_mutant_noadd(b) == b

BusyAfterGet(b) == b + 1

\* worker: the loop condition while (_running)
NextLoop(h) == IF running[h] THEN [pc |-> "h_lock"] ELSE [pc |-> "h_exit"]

\* worker: under the mutex, wait unless a message is available or _running is false,
\* then get_message() if _running
worker_lock(h) ==
    /\ ~crashed /\ OnlyMM
    /\ pc[h].pc = "h_lock"
    /\ \E view \in Hooks(h) :
        LET available == view = "derived" /\ queue # <<>>
        IN  IF ~available /\ running[h]
            THEN /\ pc' = [pc EXCEPT ![h] = [pc |-> "h_wait"]]
                 /\ UNCHANGED <<queue, busy, status>>
            ELSE IF running[h] /\ view = "derived"
            THEN \E idx \in PopChoices(cfg[h].order, queue) :
                    /\ queue' = RemoveAt(queue, idx)
                    /\ busy' = BusyAfterGet(busy)
                    /\ status' = [status EXCEPT ![queue[idx]] = "taken"]
                    /\ pc' = [pc EXCEPT ![h] = [pc |-> "h_check", msg |-> queue[idx]]]
            ELSE /\ pc' = [pc EXCEPT ![h] = [pc |-> "h_check", msg |-> NoPayload]]
                 /\ UNCHANGED <<queue, busy, status>>
    /\ UNCHANGED <<hasQueue, mtxT, mtxQs, running, derived, cfg, handled, nextP, snap, crashed>>

\* worker: if (_running) on_message(message_data); message_handler::on_message
\* passes the payload to _on_message
worker_dispatch(h) ==
    /\ ~crashed /\ OnlyMM
    /\ pc[h].pc = "h_check"
    /\ IF running[h] /\ pc[h].msg # NoPayload
       THEN \E view \in Hooks(h) :
              IF view = "derived"
              THEN /\ pc' = [pc EXCEPT ![h] = [pc |-> "m_user", msg |-> pc[h].msg]]
                   /\ status' = [status EXCEPT ![pc[h].msg] = "handling"]
                   /\ handled' = [handled EXCEPT ![pc[h].msg] = @ + 1]
              ELSE /\ pc' = [pc EXCEPT ![h] = NextLoop(h)]
                   /\ UNCHANGED <<status, handled>>
       ELSE /\ pc' = [pc EXCEPT ![h] = NextLoop(h)]
            /\ UNCHANGED <<status, handled>>
    /\ UNCHANGED <<hasQueue, queue, busy, mtxT, mtxQs, running, derived, cfg,
                   nextP, snap, crashed>>

\* the user's _on_message returns
on_message_return(h) ==
    /\ ~crashed /\ OnlyMM
    /\ pc[h].pc \in {"m_user", "m_ret"}
    /\ pc' = [pc EXCEPT ![h] = [pc |-> "m_dec", msg |-> pc[h].msg]]
    /\ status' = [status EXCEPT ![pc[h].msg] = "done"]
    /\ UNCHANGED <<hasQueue, queue, busy, mtxT, mtxQs, running, derived, cfg,
                   handled, nextP, snap, crashed>>

\* the user's _on_message throws a std::exception: catch calls _on_exception(ex); an
\* empty std::function throws std::bad_function_call out of the noexcept on_message
on_message_throw(h) ==
    /\ ~crashed /\ OnlyMM
    /\ pc[h].pc = "m_user"
    /\ IF cfg[h].on_exception
       THEN /\ pc' = [pc EXCEPT ![h] = [pc |-> "m_dec", msg |-> pc[h].msg]]
            /\ status' = [status EXCEPT ![pc[h].msg] = "done"]
            /\ UNCHANGED crashed
       ELSE /\ crashed' = TRUE
            /\ UNCHANGED <<pc, status>>
    /\ UNCHANGED <<hasQueue, queue, busy, mtxT, mtxQs, running, derived, cfg,
                   handled, nextP, snap>>

\* on_message: busy_count.fetch_sub(1), outside the queue mutex
on_message_decrement(h) ==
    /\ ~crashed /\ OnlyMM
    /\ pc[h].pc = "m_dec"
    /\ busy' = busy - 1
    /\ pc' = [pc EXCEPT ![h] = [pc |-> "m_Q", still_busy |-> busy - 1]]
    /\ UNCHANGED <<hasQueue, queue, mtxT, mtxQs, running, derived, cfg,
                   status, handled, nextP, snap, crashed>>

\* on_message: under the queue mutex, notify queue_cv_empty if the queue is empty
\* and still_busy is 0; then the worker's loop condition
on_message_notify(h) ==
    /\ ~crashed /\ OnlyMM
    /\ pc[h].pc = "m_Q"
    /\ pc' = [(IF queue = <<>> /\ pc[h].still_busy = 0 THEN NotifyCvEmpty(pc) ELSE pc)
                 EXCEPT ![h] = NextLoop(h)]
    /\ UNCHANGED <<hasQueue, queue, busy, mtxT, mtxQs, running, derived, cfg,
                   status, handled, nextP, snap, crashed>>

\* worker: on_exit() after the loop. _running is false only once ~threaded_object
\* runs, so the call reaches threaded_object::on_exit, which does nothing
worker_exit(h) ==
    /\ ~crashed /\ OnlyMM
    /\ pc[h].pc = "h_exit"
    /\ \E view \in Hooks(h) :
          pc' = [pc EXCEPT ![h] = [pc |-> "h_done",
                                   on_exit_calls |-> IF view = "derived" THEN 1 ELSE 0]]
    /\ UNCHANGED <<hasQueue, queue, busy, mtxT, mtxQs, running, derived, cfg,
                   status, handled, nextP, snap, crashed>>

\* the handlers in _threads[id]
Registered == {h \in Handlers : pc[h].pc \notin {"unused", "joined"}}

\* dispose(id): lock _threads_mutex, then _message_queues_mutex
dispose(t) ==
    /\ ~crashed /\ OnlyMM
    /\ pc[t] = AtRest
    /\ mtxT = "none" /\ mtxQs = "none"
    /\ mtxT' = t /\ mtxQs' = t
    /\ pc' = [pc EXCEPT ![t] = [pc |-> "d_clear"]]
    /\ UNCHANGED <<hasQueue, queue, busy, running, derived, cfg,
                   status, handled, nextP, snap, crashed>>

\* _threads[id].clear(): the next handler is destroyed; ~message_handler destroys
\* its members, then ~threaded_object begins
dispose_destroy(t, h) ==
    /\ ~crashed /\ OnlyMM
    /\ pc[t].pc = "d_clear"
    /\ h \in Registered
    /\ derived' = [derived EXCEPT ![h] = FALSE]
    /\ pc' = [pc EXCEPT ![t] = [pc |-> "d_lock", h |-> h]]
    /\ UNCHANGED <<hasQueue, queue, busy, mtxT, mtxQs, running, cfg,
                   status, handled, nextP, snap, crashed>>

\* ~threaded_object: under the mutex, _running = false
dispose_stop(t) ==
    /\ ~crashed /\ OnlyMM
    /\ pc[t].pc = "d_lock"
    /\ running' = [running EXCEPT ![pc[t].h] = FALSE]
    /\ pc' = [pc EXCEPT ![t].pc = "d_notify"]
    /\ UNCHANGED <<hasQueue, queue, busy, mtxT, mtxQs, derived, cfg,
                   status, handled, nextP, snap, crashed>>

\* ~threaded_object: _cv->notify_all()
dispose_notify(t) ==
    /\ ~crashed /\ OnlyMM
    /\ pc[t].pc = "d_notify"
    /\ pc' = [NotifyQueueCv(pc) EXCEPT ![t] = [pc |-> "d_join", h |-> pc[t].h]]
    /\ UNCHANGED <<hasQueue, queue, busy, mtxT, mtxQs, running, derived, cfg,
                   status, handled, nextP, snap, crashed>>

\* ~threaded_object: _t.join() returns when the worker has left worker()
dispose_join(t) ==
    /\ ~crashed /\ OnlyMM
    /\ pc[t].pc = "d_join"
    /\ pc[pc[t].h].pc = "h_done"
    /\ pc' = [pc EXCEPT ![t] = [pc |-> "d_clear"],
                         ![pc[t].h] = [pc |-> "joined",
                                       on_exit_calls |-> pc[pc[t].h].on_exit_calls]]
    /\ UNCHANGED <<hasQueue, queue, busy, mtxT, mtxQs, running, derived, cfg,
                   status, handled, nextP, snap, crashed>>

\* dispose: the set is empty, both mutexes are released
dispose_return(t) ==
    /\ ~crashed /\ OnlyMM
    /\ pc[t].pc = "d_clear"
    /\ Registered = {}
    /\ mtxT' = "none" /\ mtxQs' = "none"
    /\ pc' = [pc EXCEPT ![t] = AtRest]
    /\ UNCHANGED <<hasQueue, queue, busy, running, derived, cfg,
                   status, handled, nextP, snap, crashed>>

InitMM ==
    /\ hasQueue = FALSE
    /\ queue = <<>>
    /\ busy = 0
    /\ mtxT = "none"
    /\ mtxQs = "none"
    /\ pc = [t \in Threads |-> IF t \in Handlers THEN Unused ELSE AtRest]
    /\ running = [h \in Handlers |-> FALSE]
    /\ derived = [h \in Handlers |-> FALSE]
    /\ cfg = [h \in Handlers |-> [order |-> "FIFO", on_exception |-> FALSE]]
    /\ status = [p \in Payloads |-> "unsent"]
    /\ handled = [p \in Payloads |-> 0]
    /\ nextP = 1
    /\ snap = [t \in Threads |-> {}]
    /\ crashed = FALSE

\* the steps of sends in progress and of the workers
MMWork ==
    \/ \E t \in Threads : send_enqueue(t)
    \/ \E t \in Threads : send_notify(t)
    \/ \E h \in Handlers : worker_lock(h)
    \/ \E h \in Handlers : worker_dispatch(h)
    \/ \E h \in Handlers : on_message_return(h)
    \/ \E h \in Handlers : on_message_throw(h)
    \/ \E h \in Handlers : on_message_decrement(h)
    \/ \E h \in Handlers : on_message_notify(h)

\* the steps of calls in progress and of workers; _on_message may send
MMProgress ==
    \/ MMWork
    \/ \E t \in Threads : wait_check(t)
    \/ \E t \in Threads : wait_return(t)
    \/ \E h \in Handlers : send_message(h, 0)
    \/ \E h \in Handlers : send_find_queue(h)

\* the calls the program's threads make
MMCalls(callers) ==
    \/ \E t \in callers, k \in {0, MaxQueued} : send_message(t, k)
    \/ \E t \in callers, h \in Handlers, order \in Orders, on_exception \in BOOLEAN :
          add_handler(t, h, order, on_exception)
    \/ \E t \in callers : wait_until_empty(t)

\* calls into the same manager from inside _on_message
MMReentrant ==
    \/ \E h \in Handlers : wait_until_empty(h)
    \/ \E h \in Handlers : wait_find_queue(h)
    \/ \E h \in Handlers, g \in Handlers, order \in Orders, on_exception \in BOOLEAN :
          add_handler(h, g, order, on_exception)
    \/ \E h \in Handlers : add_handler_create(h)

MMDispose(callers) ==
    \/ \E t \in callers : dispose(t)
    \/ \E t \in callers, h \in Handlers : dispose_destroy(t, h)
    \/ \E t \in callers : dispose_stop(t)
    \/ \E t \in callers : dispose_notify(t)
    \/ \E t \in callers : dispose_join(t)
    \/ \E t \in callers : dispose_return(t)
    \/ \E h \in Handlers : worker_exit(h)

NextMM == MMCalls(Clients) \/ MMProgress

\* producers and handlers only; every sender passes the same max_queued_messages > 0
NextMMK ==
    \/ \E t \in Clients : send_message(t, MaxQueued)
    \/ \E t \in Clients, h \in Handlers, order \in Orders, on_exception \in BOOLEAN :
          add_handler(t, h, order, on_exception)
    \/ MMWork

\* one sender and exactly one handler, FIFO or FILO, registered before or after sends
NextMMO ==
    \/ send_message("c1", 0)
    \/ \E order \in {"FIFO", "FILO"}, on_exception \in BOOLEAN :
          add_handler("c1", "h1", order, on_exception)
    \/ MMWork

\* one thread sends and registers handlers (each with an on_exception callback), the
\* other one waits for the queue to drain; no handler is disposed of
NextMMW ==
    \/ \E k \in {0, MaxQueued} : send_message("c1", k)
    \/ \E h \in Handlers, order \in {"FIFO", "FILO"} : add_handler("c1", h, order, TRUE)
    \/ wait_until_empty("c2")
    \/ MMWork
    \/ wait_check("c2")
    \/ wait_return("c2")

\* the steps a thread takes on its own once it is inside a call or a worker loop
ThreadStep(t) ==
    \/ send_enqueue(t)
    \/ send_notify(t)
    \/ wait_check(t)
    \/ wait_return(t)
    \/ t \in Handlers /\ worker_lock(t)
    \/ t \in Handlers /\ worker_dispatch(t)
    \/ t \in Handlers /\ on_message_return(t)
    \/ t \in Handlers /\ on_message_decrement(t)
    \/ t \in Handlers /\ on_message_notify(t)
    \/ t \in Handlers /\ worker_exit(t)
    \/ \E h \in Handlers : dispose_destroy(t, h)
    \/ dispose_stop(t)
    \/ dispose_notify(t)
    \/ dispose_join(t)
    \/ dispose_return(t)

\* one thread sends and registers handlers whose on_message returns without calling
\* into the manager, the other one disposes of them
NextMMJ ==
    \/ send_message("c1", 0)
    \/ \E h \in Handlers : add_handler("c1", h, "FIFO", TRUE)
    \/ MMWork
    \/ MMDispose({"c2"})

\* with dispose: one thread uses the manager, the other one disposes; the order in
\* which a handler pops plays no part in disposal, so the handlers are FIFO
NextMMD ==
    \/ \E k \in {0, MaxQueued} : send_message("c1", k)
    \/ \E h \in Handlers, on_exception \in BOOLEAN : add_handler("c1", h, "FIFO", on_exception)
    \/ wait_until_empty("c1")
    \/ MMProgress
    \/ MMReentrant
    \/ MMDispose({"c2"})

\* the steps of NextMMD that belong to a call already made or to a worker
MMDProgress ==
    \/ MMProgress
    \/ MMReentrant
    \/ \E t \in Clients, h \in Handlers : dispose_destroy(t, h)
    \/ \E t \in Clients : dispose_stop(t)
    \/ \E t \in Clients : dispose_notify(t)
    \/ \E t \in Clients : dispose_join(t)
    \/ \E t \in Clients : dispose_return(t)
    \/ \E h \in Handlers : worker_exit(h)

(***************************************************************************)
(* stable_interprocess_map used by several threads at once, through one    *)
(* instance or through instances already opened on one identifier: they    *)
(* all map the same segment (seg) and lock the same named mutex (cmtx).    *)
(* memcpy writes the segment cell by cell. plain is the map obtained by    *)
(* applying the completed mutations in the order of their unlocks.         *)
(***************************************************************************)
MapThreads == {"m1", "m2", "m3"}

MapIdle == [pc |-> "idle"]

\* pthread_mutex_lock on the shared mutex: granted when no other thread owns it
MutexFree_mutant_shared(t) == TRUE

MutexFree(t) == cmtx = "none"

\* the map a mutation stores, from the map it deserialized
ApplyMutation_mutant_skip_updater(op, m) ==
    CASE op.op = "insert" -> MapPut(m, op.key, op.value)
      [] op.op = "erase" -> MapDel(m, op.key)
      [] op.op = "clear" -> EmptyMap
      [] op.op = "update" -> m

ApplyMutation(op, m) ==
    CASE op.op = "insert" -> MapPut(m, op.key, op.value)
      [] op.op = "erase" -> MapDel(m, op.key)
      [] op.op = "clear" -> EmptyMap
      [] op.op = "update" -> IF op.key \in DOMAIN m
                             THEN MapPut(m, op.key, ApplyUpdater(op.updater, m[op.key]))
                             ELSE m

\* update: local_instance.find(key) == local_instance.end(), runtime_error is thrown
KeyNotFound(op, m) == op.op = "update" /\ op.key \notin DOMAIN m

\* the calls of the threads that update one another's entries
UpdateCalls ==
    {[op |-> "update", key |-> k, updater |-> "inc"] : k \in Keys}
    \cup {[op |-> "insert", key |-> 1, value |-> 0], [op |-> "erase", key |-> 1]}

MapCalls ==
    {[op |-> "insert", key |-> k, value |-> v] : k \in Keys, v \in Vals}
    \cup {[op |-> "erase", key |-> k] : k \in Keys}
    \cup {[op |-> "clear"], [op |-> "at"]}

\* auto lock = get_lock_guard()
map_lock(t, op) ==
    /\ OnlyCMap
    /\ cpc[t] = MapIdle
    /\ MutexFree(t)
    /\ cmtx' = t
    /\ cpc' = [cpc EXCEPT ![t] = [pc |-> "locked", op |-> op]]
    /\ UNCHANGED <<seg, plain>>

\* a mutation: deserialize, change the local map, stage it and check its size
map_stage(t) ==
    /\ OnlyCMap
    /\ cpc[t].pc = "locked" /\ cpc[t].op.op # "at"
    /\ LET local == ApplyMutation(cpc[t].op, deserialize(seg))
       IN  cpc' = [cpc EXCEPT ![t] =
                      IF KeyNotFound(cpc[t].op, deserialize(seg))
                         \/ EncodedSize(local) > capacity
                      THEN [pc |-> "thrown", op |-> cpc[t].op]
                      ELSE [pc |-> "memcpy", op |-> cpc[t].op, local |-> local,
                            staged |-> map_serialize(local), idx |-> 1]]
    /\ UNCHANGED <<seg, plain, cmtx>>

\* std::memcpy(data(), buffer.get(), buffer.size()), one cell at a time
map_memcpy(t) ==
    /\ OnlyCMap
    /\ cpc[t].pc = "memcpy"
    /\ seg' = [seg EXCEPT ![cpc[t].idx] = cpc[t].staged[cpc[t].idx]]
    /\ cpc' = [cpc EXCEPT ![t] =
                  IF cpc[t].idx = Len(cpc[t].staged)
                  THEN [pc |-> "written", op |-> cpc[t].op, local |-> cpc[t].local]
                  ELSE [cpc[t] EXCEPT !.idx = @ + 1]]
    /\ UNCHANGED <<plain, cmtx>>

\* a read: local_instance = deserialize()
map_snapshot(t) ==
    /\ OnlyCMap
    /\ cpc[t].pc = "locked" /\ cpc[t].op.op = "at"
    /\ cpc' = [cpc EXCEPT ![t] = [pc |-> "snapshot", op |-> cpc[t].op,
                                  local |-> deserialize(seg)]]
    /\ UNCHANGED <<seg, plain, cmtx>>

\* ~lock_guard: the operation returns (or its runtime_error leaves the method)
map_unlock(t) ==
    /\ OnlyCMap
    /\ cpc[t].pc \in {"written", "thrown", "snapshot"}
    /\ cmtx' = IF cmtx = t THEN "none" ELSE cmtx
    /\ plain' = IF cpc[t].pc = "written" THEN ApplyMutation(cpc[t].op, plain) ELSE plain
    /\ cpc' = [cpc EXCEPT ![t] = MapIdle]
    /\ UNCHANGED seg

InitCMap ==
    /\ cmtx = "none"
    /\ cpc = [t \in MapThreads |-> MapIdle]

NextCMap ==
    \/ \E t \in MapThreads, op \in MapCalls : map_lock(t, op)
    \/ \E t \in MapThreads : map_stage(t)
    \/ \E t \in MapThreads : map_memcpy(t)
    \/ \E t \in MapThreads : map_snapshot(t)
    \/ \E t \in MapThreads : map_unlock(t)

\* threads that call update, with an insert and an erase of the updated key
NextCMapUpdate ==
    \/ \E t \in MapThreads, op \in UpdateCalls : map_lock(t, op)
    \/ \E t \in MapThreads : map_stage(t)
    \/ \E t \in MapThreads : map_memcpy(t)
    \/ \E t \in MapThreads : map_unlock(t)

(***************************************************************************)
(* singleton_control and singleton<T>. The body of get after the lock, and *)
(* the body of reset, run under singleton_control::_mutex and are one step *)
(* each; the test of _shutdown at the start of get is made before the lock *)
(* is taken and is a step of its own.                                      *)
(***************************************************************************)
MaxObjs == 3

SgThreads == {"s1", "s2"}

SgNames == {"n1", "n2"}

NoInstance == 0

SgIdle == [pc |-> "idle"]

SgTypes == {"T", "U"}

\* the callers' shared_ptr<T> copies of object o: handles kept and handles being returned
Holders_of(o) ==
    {t \in SgThreads : o \in sHandles[t] \/ (spc[t].pc = "g_ret" /\ spc[t].res = o)}

\* the entry of _instances whose singleton object owns o, if any
IsRegistered(o) == \E n \in SgNames : sInstances[n] = o

\* ~T runs when the last shared_ptr<T> to o goes away: here the objects in gone
\* lose one owner; those that have no owner after the step are destroyed
DestroyUnowned_mutant_always(gone) ==
    sDestroyed' = [o \in 1..MaxObjs |-> IF o \in gone THEN sDestroyed[o] + 1 ELSE sDestroyed[o]]

DestroyUnowned(gone) ==
    sDestroyed' = [o \in 1..MaxObjs |->
                     IF /\ o \in gone
                        /\ \A n \in SgNames : sInstances'[n] # o
                        /\ \A t \in SgThreads : o \notin sHandles'[t]
                        /\ \A t \in SgThreads : ~(spc'[t].pc = "g_ret" /\ spc'[t].res = o)
                     THEN sDestroyed[o] + 1
                     ELSE sDestroyed[o]]

\* singleton::get: if (_shutdown) return nullptr; otherwise go on to the lock
get_check(t, name, T) ==
    /\ OnlySingleton
    /\ spc[t] = SgIdle
    /\ spc' = [spc EXCEPT ![t] =
                  IF sShutdown THEN [pc |-> "g_ret", name |-> name, res |-> NoInstance]
                  ELSE [pc |-> "g_lock", name |-> name, T |-> T]]
    /\ UNCHANGED <<sShutdown, sInstances, sObjs, sResetDone, sTypeOf, sHandles, sDestroyed>>

\* const bool create_base_instance = !base_instance
create_base_instance_mutant_always(name) == TRUE

create_base_instance(name) == sInstances[name] = NoInstance

\* auto derived_instance = dynamic_cast<singleton*>(base_instance.get()): not null
derived_instance_mutant_any(entry_type, T) == TRUE

derived_instance(entry_type, T) == entry_type = T

\* singleton::get under the lock: create the entry if there is none; return its
\* instance if the entry is a singleton<T>, throw runtime_error otherwise
get_locked(t) ==
    /\ OnlySingleton
    /\ spc[t].pc = "g_lock"
    /\ UNCHANGED <<sShutdown, sResetDone, sHandles>>
    /\ LET name == spc[t].name
           create == create_base_instance(name)
           base_instance == IF create THEN sObjs + 1 ELSE sInstances[name]
           entry_type == IF create THEN spc[t].T ELSE sTypeOf[base_instance]
       IN  /\ create => sObjs < MaxObjs
           /\ sObjs' = IF create THEN sObjs + 1 ELSE sObjs
           /\ sTypeOf' = IF create THEN [sTypeOf EXCEPT ![base_instance] = spc[t].T]
                         ELSE sTypeOf
           /\ sInstances' = [sInstances EXCEPT ![name] = base_instance]
           /\ spc' = [spc EXCEPT ![t] =
                         IF derived_instance(entry_type, spc[t].T)
                         THEN [pc |-> "g_ret", name |-> name, res |-> base_instance]
                         ELSE [pc |-> "g_throw", name |-> name]]
           /\ DestroyUnowned(IF create THEN {sInstances[name]} \ {NoInstance} ELSE {})

\* the caller takes the handle get returned, or catches the runtime_error
get_return(t) ==
    /\ OnlySingleton
    /\ spc[t].pc \in {"g_ret", "g_throw"}
    /\ sHandles' = [sHandles EXCEPT ![t] =
                       IF spc[t].pc = "g_ret" THEN @ \cup ({spc[t].res} \ {NoInstance})
                       ELSE @]
    /\ spc' = [spc EXCEPT ![t] = SgIdle]
    /\ UNCHANGED <<sShutdown, sInstances, sObjs, sResetDone, sTypeOf, sDestroyed>>

\* a caller drops a shared_ptr<T> it holds
drop_handle(t, o) ==
    /\ OnlySingleton
    /\ spc[t] = SgIdle
    /\ o \in sHandles[t]
    /\ sHandles' = [sHandles EXCEPT ![t] = @ \ {o}]
    /\ UNCHANGED <<sShutdown, sInstances, sObjs, spc, sResetDone, sTypeOf>>
    /\ DestroyUnowned({o})

\* singleton::release(name): the entry, if there is one, is reset and erased
release(t, name) ==
    /\ OnlySingleton
    /\ spc[t] = SgIdle
    /\ sInstances' = [sInstances EXCEPT ![name] = NoInstance]
    /\ UNCHANGED <<sShutdown, sObjs, spc, sResetDone, sTypeOf, sHandles>>
    /\ DestroyUnowned({sInstances[name]} \ {NoInstance})

\* singleton_control::reset
singleton_reset(t) ==
    /\ OnlySingleton
    /\ spc[t] = SgIdle
    /\ sShutdown' = TRUE
    /\ sInstances' = [n \in SgNames |-> NoInstance]
    /\ sResetDone' = TRUE
    /\ UNCHANGED <<sObjs, spc, sTypeOf, sHandles>>
    /\ DestroyUnowned({sInstances[n] : n \in SgNames} \ {NoInstance})

\* singleton_control::set_operational
set_operational(t) ==
    /\ OnlySingleton
    /\ spc[t] = SgIdle
    /\ sShutdown' = FALSE
    /\ sResetDone' = FALSE
    /\ UNCHANGED <<sInstances, sObjs, spc, sTypeOf, sHandles, sDestroyed>>

InitSingleton ==
    /\ sShutdown = FALSE
    /\ sInstances = [n \in SgNames |-> NoInstance]
    /\ sObjs = 0
    /\ spc = [t \in SgThreads |-> SgIdle]
    /\ sResetDone = FALSE
    /\ srbCrashed = FALSE
    /\ sTypeOf = [o \in 1..MaxObjs |-> "none"]
    /\ sHandles = [t \in SgThreads |-> {}]
    /\ sDestroyed = [o \in 1..MaxObjs |-> 0]

NextSingleton ==
    \/ \E t \in SgThreads, n \in SgNames : get_check(t, n, "T")
    \/ \E t \in SgThreads : get_locked(t)
    \/ \E t \in SgThreads : get_return(t)
    \/ \E t \in SgThreads : singleton_reset(t)
    \/ \E t \in SgThreads : set_operational(t)

\* the registry while it stays operational: gets, and callers dropping handles
NextSgOperational ==
    \/ \E t \in SgThreads, n \in SgNames : get_check(t, n, "T")
    \/ \E t \in SgThreads : get_locked(t)
    \/ \E t \in SgThreads : get_return(t)
    \/ \E t \in SgThreads, o \in 1..MaxObjs : drop_handle(t, o)

\* gets of two types, release and reset, and callers dropping handles
NextSgLifetime ==
    \/ \E t \in SgThreads, n \in SgNames : get_check(t, n, "T")
    \/ \E T \in SgTypes : get_check("s2", "n1", T)
    \/ \E t \in SgThreads : get_locked(t)
    \/ \E t \in SgThreads : get_return(t)
    \/ \E t \in SgThreads, o \in 1..MaxObjs : drop_handle(t, o)
    \/ \E n \in SgNames : release("s1", n)
    \/ singleton_reset("s1")

\* an element of _instances that holds a null unique_ptr
NullElement == -1

\* "X" is a type whose constructor throws
ThrowingTypes == {"X"}

\* the order in which reset() walks the std::map
NameOrder == [n1 |-> 1, n2 |-> 2]

\* singleton_control::reset called instance.second->release_instance() on a null
\* unique_ptr: the process is gone
SgFault == \E t \in SgThreads : spc[t].pc = "fault"

\* singleton::get under the lock, for a T whose constructor may throw:
\* _instances[name] inserts a null element when the name has none, and
\* create_base_instance = !base_instance; a constructor that throws inside
\* std::make_unique leaves get with the element as it is
get_locked_constructing(t) ==
    /\ OnlySingleton
    /\ spc[t].pc = "g_lock"
    /\ UNCHANGED <<sShutdown, sResetDone, sHandles>>
    /\ LET name == spc[t].name
           create == sInstances[name] \in {NoInstance, NullElement}
           throws == create /\ spc[t].T \in ThrowingTypes
           base_instance == IF create THEN sObjs + 1 ELSE sInstances[name]
           entry_type == IF create THEN spc[t].T ELSE sTypeOf[base_instance]
       IN  IF throws
           THEN /\ sInstances' = [sInstances EXCEPT ![name] = NullElement]
                /\ spc' = [spc EXCEPT ![t] = [pc |-> "g_throw", name |-> name]]
                /\ UNCHANGED <<sObjs, sTypeOf, sDestroyed>>
           ELSE /\ create => sObjs < MaxObjs
                /\ sObjs' = IF create THEN sObjs + 1 ELSE sObjs
                /\ sTypeOf' = IF create THEN [sTypeOf EXCEPT ![base_instance] = spc[t].T]
                              ELSE sTypeOf
                /\ sInstances' = [sInstances EXCEPT ![name] = base_instance]
                /\ spc' = [spc EXCEPT ![t] =
                              IF derived_instance(entry_type, spc[t].T)
                              THEN [pc |-> "g_ret", name |-> name, res |-> base_instance]
                              ELSE [pc |-> "g_throw", name |-> name]]
                /\ UNCHANGED sDestroyed

\* singleton_control::reset over a map that may hold null elements: the loop
\* releases the elements in key order and dereferences each of them
reset_elements(t) ==
    /\ OnlySingleton
    /\ spc[t] = SgIdle
    /\ sShutdown' = TRUE
    /\ LET nulls == {n \in SgNames : sInstances[n] = NullElement}
           before == {n \in SgNames : \A m \in nulls : NameOrder[n] < NameOrder[m]}
       IN  IF nulls = {}
           THEN /\ sInstances' = [n \in SgNames |-> NoInstance]
                /\ sResetDone' = TRUE
                /\ UNCHANGED spc
           ELSE /\ sInstances' = [n \in SgNames |->
                                     IF n \in before /\ sInstances[n] # NoInstance
                                     THEN NullElement ELSE sInstances[n]]
                /\ spc' = [spc EXCEPT ![t] = [pc |-> "fault"]]
                /\ UNCHANGED sResetDone
    /\ UNCHANGED <<sObjs, sTypeOf, sHandles>>
    /\ DestroyUnowned({sInstances[n] : n \in SgNames} \ {NoInstance})

\* gets of types whose constructor throws or not, release and reset
NextSgThrow ==
    \/ \E t \in SgThreads, n \in SgNames, T \in {"T"} \cup ThrowingTypes :
          ~SgFault /\ get_check(t, n, T)
    \/ \E t \in SgThreads : ~SgFault /\ get_locked_constructing(t)
    \/ \E t \in SgThreads : ~SgFault /\ get_return(t)
    \/ \E t \in SgThreads, o \in 1..MaxObjs : ~SgFault /\ drop_handle(t, o)
    \/ \E n \in SgNames : ~SgFault /\ release("s1", n)
    \/ ~SgFault /\ reset_elements("s1")
    \/ ~SgFault /\ set_operational("s1")

\* types by what their destructor does: ~T of "T" calls nothing of the registry, ~T
\* of "G" calls singleton<...>::get (as the destructor of an object with
\* stable_reference_buffer members does, through get_use_count), ~T of "R" calls
\* singleton<...>::release
DtorTypes == {"T", "G", "R"}

\* the destructor requests _mutex: release always locks, get locks unless _shutdown
DtorLocksMutex(T, shutdown) == T = "R" \/ (T = "G" /\ ~shutdown)

\* a thread that requested the std::mutex it already owns never gets it: the mutex
\* stays locked
MutexStuck == \E t \in SgThreads : spc[t].pc = "relock"

\* the objects of gone whose last owner was the registry entry: ~T runs inside the
\* caller's critical section
DestroyedUnderLock(gone) == {o \in gone : Holders_of(o) = {}}

\* singleton::release(name) for any T: it->second.reset() runs ~T under _mutex when
\* the entry was the last owner
release_under_lock(t, name) ==
    /\ OnlySingleton
    /\ spc[t] = SgIdle
    /\ ~MutexStuck
    /\ sInstances' = [sInstances EXCEPT ![name] = NoInstance]
    /\ spc' = IF \E o \in DestroyedUnderLock({sInstances[name]} \ {NoInstance}) :
                     DtorLocksMutex(sTypeOf[o], sShutdown)
              THEN [spc EXCEPT ![t] = [pc |-> "relock", name |-> name]]
              ELSE spc
    /\ UNCHANGED <<sShutdown, sObjs, sResetDone, sTypeOf, sHandles>>
    /\ DestroyUnowned({sInstances[name]} \ {NoInstance})

\* singleton_control::reset for any T: _shutdown = true, then release_instance()
\* runs ~T under _mutex for every entry that was the last owner
reset_under_lock(t) ==
    /\ OnlySingleton
    /\ spc[t] = SgIdle
    /\ ~MutexStuck
    /\ sShutdown' = TRUE
    /\ LET gone == {sInstances[n] : n \in SgNames} \ {NoInstance}
       IN  IF \E o \in DestroyedUnderLock(gone) : DtorLocksMutex(sTypeOf[o], TRUE)
           THEN /\ spc' = [spc EXCEPT ![t] = [pc |-> "relock", name |-> "all"]]
                /\ UNCHANGED <<sInstances, sResetDone>>
           ELSE /\ sInstances' = [n \in SgNames |-> NoInstance]
                /\ sResetDone' = TRUE
                /\ UNCHANGED spc
    /\ UNCHANGED <<sObjs, sTypeOf, sHandles>>
    /\ DestroyUnowned({sInstances[n] : n \in SgNames} \ {NoInstance})

\* gets of types with any destructor, release and reset; a get cannot lock _mutex
\* while it is stuck
NextSgDtor ==
    \/ \E n \in SgNames, T \in DtorTypes : get_check("s1", n, T)
    \/ get_check("s2", "n1", "T")
    \/ \E t \in SgThreads : ~MutexStuck /\ get_locked(t)
    \/ \E t \in SgThreads : get_return(t)
    \/ \E t \in SgThreads, o \in 1..MaxObjs : drop_handle(t, o)
    \/ \E n \in SgNames : release_under_lock("s1", n)
    \/ reset_under_lock("s1")

(***************************************************************************)
(* Teardown: stable_reference_buffer objects that outlive                  *)
(* singleton_control::reset(). Each object keeps its own handle            *)
(* (_use_count) to the RC map, so the map itself survives the reset; the   *)
(* static get_use_count() goes through singleton::get and returns nullptr  *)
(* once the registry is shut down.                                         *)
(***************************************************************************)
\* stable_reference_buffer::get_use_count(): the handle singleton::get returns
get_use_count == IF sShutdown THEN "nullptr" ELSE "map"

\* stable_reference_buffer::reset() (also run by the destructor) while the
\* registry is shut down: is_known(_buffer) returns false for nullptr, and
\* otherwise calls get_use_count()->get_lock_guard() on the handle it got
reset_shut_down(i) ==
    /\ ~srbCrashed
    /\ get_use_count = "nullptr"
    /\ IF inst[i].buf = 0
       THEN /\ inst' = [inst EXCEPT ![i] = NoBuffer]
            /\ UNCHANGED srbCrashed
       ELSE /\ srbCrashed' = TRUE
            /\ UNCHANGED inst
    /\ srbOp' = [op |-> "reset_shut_down", i |-> i]
    /\ UNCHANGED <<rc, heap, mem, scopes, tpc, scopesEver>>
    /\ UNCHANGED <<mapVars, mmVars, cmapVars, srbcVars, bufVars, nmVars>>
    /\ UNCHANGED <<sShutdown, sInstances, sObjs, spc, sResetDone>>
    /\ UNCHANGED <<sTypeOf, sHandles, sDestroyed>>

\* the stable_reference_buffer operations made before the teardown
SrbBeforeShutdown ==
    /\ get_use_count = "map"
    /\ \/ \E t \in SrbThreads, i \in Insts : construct_begin(t, i)
       \/ \E t \in SrbThreads : construct_end(t)
       \/ \E i \in Insts, j \in Insts : copy_construct(i, j)
       \/ \E i \in Insts : reset(i)

NextTeardown ==
    \/ SrbBeforeShutdown
    \/ ~srbCrashed /\ ~sShutdown /\ singleton_reset("s1")
    \/ \E i \in Insts : reset_shut_down(i)

(***************************************************************************)
(* stable_reference_buffer objects used by several threads, each thread    *)
(* working on objects of its own that share blocks with the other          *)
(* thread's. The RC map is one stable_interprocess_map: update reads the   *)
(* whole map and writes the whole map back, under the map's named          *)
(* recursive mutex (rmtx), which reset and append also hold around their   *)
(* whole body. No delay_deallocation scope is active.                      *)
(***************************************************************************)
RcThreads == {"r1", "r2"}

Slots == {1, 2}

RcIdle == [pc |-> "idle"]

\* pthread_mutex_lock on the RC map's mutex: granted when no other thread owns it
RcLockFree_mutant_shared(t) == TRUE

RcLockFree(t) == rmtx = "none"

\* the number of objects, of all threads, that hold address a
Holders(a) == Cardinality({x \in RcThreads \X Slots : tinst[x[1]][x[2]] = a})

Quiet == \A t \in RcThreads : rpc[t] = RcIdle

\* stable_reference_buffer(size): malloc, then update_or_insert with the initial count
rc_construct(t, k) ==
    /\ OnlySRBC
    /\ rpc[t] = RcIdle /\ tinst[t][k] = 0
    /\ RcLockFree(t)
    /\ \E a \in Addrs \ heap :
        /\ heap' = heap \cup {a}
        /\ rc' = MapPut(rc, a, IF a \in DOMAIN rc THEN rc[a] + 1 ELSE get_initial_use_count)
        /\ tinst' = [tinst EXCEPT ![t][k] = a]
    /\ UNCHANGED <<rmtx, rpc, badFree>>

\* a copy made for another thread while no thread is inside an operation
rc_handover(t, k, u, j) ==
    /\ OnlySRBC
    /\ Quiet /\ u # t
    /\ tinst[t][k] = 0 /\ is_known(tinst[u][j])
    /\ rc' = MapPut(rc, tinst[u][j], rc[tinst[u][j]] + 1)
    /\ tinst' = [tinst EXCEPT ![t][k] = tinst[u][j]]
    /\ UNCHANGED <<heap, rmtx, rpc, badFree>>

\* copy constructor: _buffer = other._buffer, before the count is updated
cc_assign(t, k, j) ==
    /\ OnlySRBC
    /\ rpc[t] = RcIdle
    /\ tinst[t][k] = 0 /\ tinst[t][j] # 0
    /\ tinst' = [tinst EXCEPT ![t][k] = tinst[t][j]]
    /\ rpc' = [rpc EXCEPT ![t] = [pc |-> "cc_lock", k |-> k]]
    /\ UNCHANGED <<rc, heap, rmtx, badFree>>

\* copy constructor: _use_count->update locks and deserializes the map
cc_read(t) ==
    /\ OnlySRBC
    /\ rpc[t].pc = "cc_lock"
    /\ RcLockFree(t)
    /\ rmtx' = t
    /\ rpc' = [rpc EXCEPT ![t] = [pc |-> "cc_write", k |-> rpc[t].k, local |-> rc]]
    /\ UNCHANGED <<rc, heap, tinst, badFree>>

\* copy constructor: update increments, serializes and unlocks; it throws when the key is absent
cc_write(t) ==
    /\ OnlySRBC
    /\ rpc[t].pc = "cc_write"
    /\ LET a == tinst[t][rpc[t].k]
           local == rpc[t].local
       IN  IF a \in DOMAIN local
           THEN /\ rc' = MapPut(local, a, local[a] + 1)
                /\ UNCHANGED tinst
           ELSE /\ tinst' = [tinst EXCEPT ![t][rpc[t].k] = 0]
                /\ UNCHANGED rc
    /\ rmtx' = IF rmtx = t THEN "none" ELSE rmtx
    /\ rpc' = [rpc EXCEPT ![t] = RcIdle]
    /\ UNCHANGED <<heap, badFree>>

\* reset: auto lock = _use_count->get_lock_guard()
rs_lock(t, k) ==
    /\ OnlySRBC
    /\ rpc[t] = RcIdle /\ tinst[t][k] # 0
    /\ RcLockFree(t)
    /\ rmtx' = t
    /\ rpc' = [rpc EXCEPT ![t] = [pc |-> "rs_read", k |-> k]]
    /\ UNCHANGED <<rc, heap, tinst, badFree>>

\* reset: is_known(_buffer), and update deserializes the map
rs_read(t) ==
    /\ OnlySRBC
    /\ rpc[t].pc = "rs_read"
    /\ rpc' = [rpc EXCEPT ![t] =
                  IF is_known(tinst[t][rpc[t].k])
                  THEN [pc |-> "rs_write", k |-> rpc[t].k, local |-> rc]
                  ELSE [pc |-> "rs_clear", k |-> rpc[t].k]]
    /\ UNCHANGED <<rc, heap, rmtx, tinst, badFree>>

\* reset: update decrements and serializes; at 0 the entry is erased and the block freed
rs_write(t) ==
    /\ OnlySRBC
    /\ rpc[t].pc = "rs_write"
    /\ LET a == tinst[t][rpc[t].k]
           local == rpc[t].local
       IN  IF a \in DOMAIN local /\ local[a] - 1 # 0
           THEN /\ rc' = MapPut(local, a, local[a] - 1)
                /\ UNCHANGED <<heap, badFree>>
           ELSE /\ rc' = MapDel(local, a)
                /\ heap' = heap \ {a}
                /\ badFree' = (badFree \/ a \notin heap)
    /\ rpc' = [rpc EXCEPT ![t] = [pc |-> "rs_clear", k |-> rpc[t].k]]
    /\ UNCHANGED <<rmtx, tinst>>

\* reset: _buffer = nullptr; _size = 0; the lock is released
rs_clear(t) ==
    /\ OnlySRBC
    /\ rpc[t].pc = "rs_clear"
    /\ tinst' = [tinst EXCEPT ![t][rpc[t].k] = 0]
    /\ rmtx' = IF rmtx = t THEN "none" ELSE rmtx
    /\ rpc' = [rpc EXCEPT ![t] = RcIdle]
    /\ UNCHANGED <<rc, heap, badFree>>

\* append: auto lock = _use_count->get_lock_guard()
ap_lock(t, k) ==
    /\ OnlySRBC
    /\ rpc[t] = RcIdle /\ tinst[t][k] # 0
    /\ RcLockFree(t)
    /\ rmtx' = t
    /\ rpc' = [rpc EXCEPT ![t] = [pc |-> "ap_check", k |-> k]]
    /\ UNCHANGED <<rc, heap, tinst, badFree>>

\* append: at_or_default(_buffer, 0) > 1 selects copy-on-write (malloc of the new
\* block); otherwise realloc, which keeps the address or moves the block
ap_check(t) ==
    /\ OnlySRBC
    /\ rpc[t].pc = "ap_check"
    /\ LET k == rpc[t].k
           old == tinst[t][k]
       IN  IF RcAtOrDefault(old, 0) > 1
           THEN /\ \E new_buf \in Addrs \ heap :
                     /\ heap' = heap \cup {new_buf}
                     /\ rpc' = [rpc EXCEPT ![t] = [pc |-> "ap_cow", k |-> k,
                                                   new_buf |-> new_buf, local |-> rc]]
                /\ UNCHANGED <<rc, tinst, rmtx, badFree>>
           ELSE /\ \/ UNCHANGED <<rc, heap, tinst, badFree>>
                   \/ \E moved \in Addrs \ heap :
                        /\ heap' = (heap \ {old}) \cup {moved}
                        /\ badFree' = (badFree \/ old \notin heap)
                        /\ rc' = MapDel(MapPut(rc, moved,
                                               RcAtOrDefault(old, get_initial_use_count)),
                                        old)
                        /\ tinst' = [tinst EXCEPT ![t][k] = moved]
                /\ rmtx' = IF rmtx = t THEN "none" ELSE rmtx
                /\ rpc' = [rpc EXCEPT ![t] = RcIdle]

\* append, copy-on-write: drop the reference to the old block (free it at 0), take
\* the new block, register it with the initial count, release the lock
ap_cow(t) ==
    /\ OnlySRBC
    /\ rpc[t].pc = "ap_cow"
    /\ LET k == rpc[t].k
           old == tinst[t][k]
           local == rpc[t].local
           remaining == IF old \in DOMAIN local THEN local[old] - 1 ELSE 0
           dropped == IF remaining = 0 THEN MapDel(local, old)
                      ELSE MapPut(local, old, remaining)
       IN  /\ heap' = IF remaining = 0 THEN heap \ {old} ELSE heap
           /\ badFree' = (badFree \/ (remaining = 0 /\ old \notin heap))
           /\ rc' = MapPut(dropped, rpc[t].new_buf, RcAtOrDefault(0, 1))
           /\ tinst' = [tinst EXCEPT ![t][k] = rpc[t].new_buf]
    /\ rmtx' = IF rmtx = t THEN "none" ELSE rmtx
    /\ rpc' = [rpc EXCEPT ![t] = RcIdle]

InitSRBC ==
    /\ rmtx = "none"
    /\ rpc = [t \in RcThreads |-> RcIdle]
    /\ tinst = [t \in RcThreads |-> [k \in Slots |-> 0]]
    /\ badFree = FALSE

NextSRBC ==
    \/ \E t \in RcThreads, k \in Slots : rc_construct(t, k)
    \/ \E t \in RcThreads, k \in Slots, u \in RcThreads, j \in Slots : rc_handover(t, k, u, j)
    \/ \E t \in RcThreads, k \in Slots, j \in Slots : cc_assign(t, k, j)
    \/ \E t \in RcThreads : cc_read(t)
    \/ \E t \in RcThreads : cc_write(t)
    \/ \E t \in RcThreads, k \in Slots : rs_lock(t, k)
    \/ \E t \in RcThreads : rs_read(t)
    \/ \E t \in RcThreads : rs_write(t)
    \/ \E t \in RcThreads : rs_clear(t)
    \/ \E t \in RcThreads, k \in Slots : ap_lock(t, k)
    \/ \E t \in RcThreads : ap_check(t)
    \/ \E t \in RcThreads : ap_cow(t)

(***************************************************************************)
(* buffer::buffer(const void* address, std::size_t length_of_buffer).      *)
(* _size and _buffer start from their member initialisers, 0 and nullptr.  *)
(* A write outside the block is undefined behaviour: the constructor       *)
(* either returns with the foreign bytes overwritten, or the process is    *)
(* aborted.                                                                *)
(***************************************************************************)
MaxSrcLen == 3

SrcBytes == {0, 1}

SrcBuffers == UNION {[1..n -> SrcBytes] : n \in 0..MaxSrcLen}

\* std::memcpy(_buffer + _size, address, length_of_buffer): the offsets it writes
MemcpyOffsets(offset, length_of_buffer) == offset .. (offset + length_of_buffer - 1)

\* a caller passes the address of Len(src) bytes and their number
buffer_call(src) ==
    /\ OnlyBuf
    /\ bufpc = "idle"
    /\ bufSrc' = src
    /\ bufpc' = "start"
    /\ UNCHANGED <<bufMem, bufSize, bufOutside>>

\* realloc(_buffer, length_of_buffer) with _buffer == nullptr: a block with
\* indeterminate bytes; for length 0 it may also return nullptr (std::bad_alloc)
buffer_realloc ==
    /\ OnlyBuf
    /\ bufpc = "start"
    /\ \/ /\ \E block \in [1..Len(bufSrc) -> SrcBytes] : bufMem' = block
          /\ bufpc' = "allocated"
       \/ /\ Len(bufSrc) = 0
          /\ bufpc' = "bad_alloc"
          /\ UNCHANGED bufMem
    /\ UNCHANGED <<bufSrc, bufSize, bufOutside>>

\* _buffer = new_buffer; _size = length_of_buffer; memcpy(_buffer + _size, address, ...)
buffer_memcpy ==
    /\ OnlyBuf
    /\ bufpc = "allocated"
    /\ bufSize' = Len(bufSrc)
    /\ LET written == MemcpyOffsets(bufSize', Len(bufSrc))
           inside == {o \in written : o < Len(bufMem)}
           first == CHOOSE w \in written : \A v \in written : w <= v
       IN  /\ bufMem' = [o \in 1..Len(bufMem) |->
                           IF (o - 1) \in inside THEN bufSrc[o - first] ELSE bufMem[o]]
           /\ bufOutside' = written \ inside
           /\ \/ bufpc' = "done"
              \/ bufOutside' # {} /\ bufpc' = "aborted"
    /\ UNCHANGED bufSrc

InitBuf ==
    /\ bufSrc = <<>>
    /\ bufMem = <<>>
    /\ bufSize = 0
    /\ bufOutside = {}
    /\ bufpc = "idle"

NextBuf ==
    \/ \E src \in SrcBuffers : buffer_call(src)
    \/ buffer_realloc
    \/ buffer_memcpy

(***************************************************************************)
(* named_recursive_mutex, POSIX branch: every object of one name maps the  *)
(* same pthread_mutex_t. pthread_mutex_init on a mutex that is already     *)
(* initialised, and pthread_mutex_destroy on a locked mutex, are undefined *)
(* behaviour: each either fails and leaves the mutex as it is, or takes    *)
(* effect (the mutex is reset to unlocked, or becomes invalid). A          *)
(* constructor whose pthread_mutex_init fails throws, and a lock() on an   *)
(* invalid mutex throws: neither is a step.                                *)
(***************************************************************************)
NmThreads == {"p1", "p2"}

MaxNmObjs == 2

MaxLocks == 2

NoMutex == [state |-> "unmapped", owner |-> "none", count |-> 0]

FreshMutex == [state |-> "init", owner |-> "none", count |-> 0]

\* named_recursive_mutex(name): shm_open, (ftruncate), mmap, pthread_mutex_init
nm_construct(t) ==
    /\ OnlyNamedMutex
    /\ nmObjs[t] < MaxNmObjs
    /\ nmMutex' = FreshMutex
    /\ nmObjs' = [nmObjs EXCEPT ![t] = @ + 1]
    /\ UNCHANGED nmHeld

\* ~named_recursive_mutex(): pthread_mutex_destroy, munmap; the name is not unlinked
nm_destroy(t) ==
    /\ OnlyNamedMutex
    /\ nmObjs[t] > 0
    /\ nmObjs[t] = 1 => nmHeld[t] = 0
    /\ \/ nmMutex' = [nmMutex EXCEPT !.state = "destroyed"]
       \/ nmMutex.owner # "none" /\ nmMutex' = nmMutex
    /\ nmObjs' = [nmObjs EXCEPT ![t] = @ - 1]
    /\ UNCHANGED nmHeld

\* lock(): pthread_mutex_lock of a recursive mutex returns when the mutex is free
\* or owned by the caller
nm_lock(t) ==
    /\ OnlyNamedMutex
    /\ nmObjs[t] > 0
    /\ nmHeld[t] < MaxLocks
    /\ nmMutex.state = "init"
    /\ nmMutex.owner \in {"none", t}
    /\ nmMutex' = [nmMutex EXCEPT !.owner = t, !.count = @ + 1]
    /\ nmHeld' = [nmHeld EXCEPT ![t] = @ + 1]
    /\ UNCHANGED nmObjs

\* unlock(): pthread_mutex_unlock; it fails (and unlock throws) when the caller is
\* not the owner
nm_unlock(t) ==
    /\ OnlyNamedMutex
    /\ nmObjs[t] > 0
    /\ nmHeld[t] > 0
    /\ nmMutex' = IF nmMutex.state = "init" /\ nmMutex.owner = t
                  THEN [nmMutex EXCEPT !.count = @ - 1,
                                       !.owner = IF nmMutex.count = 1 THEN "none" ELSE t]
                  ELSE nmMutex
    /\ nmHeld' = [nmHeld EXCEPT ![t] = @ - 1]
    /\ UNCHANGED nmObjs

InitNamedMutex ==
    /\ nmMutex = NoMutex
    /\ nmObjs = [t \in NmThreads |-> 0]
    /\ nmHeld = [t \in NmThreads |-> 0]

NextNamedMutex ==
    \/ \E t \in NmThreads : nm_construct(t)
    \/ \E t \in NmThreads : nm_destroy(t)
    \/ \E t \in NmThreads : nm_lock(t)
    \/ \E t \in NmThreads : nm_unlock(t)

(***************************************************************************)
(* interprocess_shared_memory, POSIX branch, for one identifier. The body  *)
(* of the constructor and of the destructor runs under the named mutex and *)
(* is one step. A shared memory object that was unlinked stays alive for   *)
(* the regions that map it.                                                *)
(***************************************************************************)
ShmHolders == {"o1", "o2"}

ShmSizes == {1, 2}

MaxSegs == 3

NoRegion == [seg |-> 0, size |-> 0]

\* ftruncate(shared_memory, size): cut, or extend with zero bytes
ftruncate(bytes, nbytes) == [o \in 1..nbytes |-> IF o <= Len(bytes) THEN bytes[o] ELSE 0]

\* capacity(): _region->get_size()
region_capacity(h) == shmObjs[h].size

\* interprocess_shared_memory(unique_identifier, size):
\* shm_open(O_CREAT | O_RDWR), ftruncate(size), mmap(size)
shm_construct(h, nbytes) ==
    /\ OnlyShm
    /\ shmObjs[h] = NoRegion
    /\ shmName = 0 => Len(shmSegs) < MaxSegs
    /\ LET shared_memory == IF shmName = 0 THEN Len(shmSegs) + 1 ELSE shmName
           opened == IF shmName = 0 THEN Append(shmSegs, <<>>) ELSE shmSegs
       IN  /\ shmName' = shared_memory
           /\ shmSegs' = [opened EXCEPT ![shared_memory] = ftruncate(@, nbytes)]
           /\ shmObjs' = [shmObjs EXCEPT ![h] = [seg |-> shared_memory, size |-> nbytes]]

\* a holder stores a byte through data(), inside its region and inside the object
shm_store(h, offset, v) ==
    /\ OnlyShm
    /\ shmObjs[h] # NoRegion
    /\ offset <= region_capacity(h)
    /\ offset <= Len(shmSegs[shmObjs[h].seg])
    /\ shmSegs' = [shmSegs EXCEPT ![shmObjs[h].seg][offset] = v]
    /\ UNCHANGED <<shmName, shmObjs>>

\* ~interprocess_shared_memory(): _region.reset() (munmap), shm_unlink(name)
shm_destroy(h) ==
    /\ OnlyShm
    /\ shmObjs[h] # NoRegion
    /\ shmObjs' = [shmObjs EXCEPT ![h] = NoRegion]
    /\ shmName' = 0
    /\ UNCHANGED shmSegs

InitShm ==
    /\ shmName = 0
    /\ shmSegs = <<>>
    /\ shmObjs = [h \in ShmHolders |-> NoRegion]

NextShm ==
    \/ \E h \in ShmHolders, nbytes \in ShmSizes : shm_construct(h, nbytes)
    \/ \E h \in ShmHolders, offset \in ShmSizes : shm_store(h, offset, FillByte)
    \/ \E h \in ShmHolders : shm_destroy(h)

(***************************************************************************)
(* serialization::traits. The buffer is a sequence of bytes; the cursor    *)
(* `it` is an offset into it. A value is a record whose field T names the  *)
(* C++ type it is serialized as: "int" (a standard-layout, trivial type),  *)
(* "string", "xpod" (the variant, with its index), "map" (std::map<int,    *)
(* V>) and "nested" (nested_map<int, V>), maps carrying their V.           *)
(***************************************************************************)
SizeofInt == 4
SizeofLongLong == 8
SizeofDouble == 8
SizeofBool == 1

MaxSerVals == 3

\* the object representation of an unsigned number in w bytes, little-endian
RECURSIVE ToBytes(_, _)
ToBytes(n, w) == IF w = 0 THEN <<>> ELSE <<n % 256>> \o ToBytes(n \div 256, w - 1)

RECURSIVE FromBytes(_)
FromBytes(b) == IF b = <<>> THEN 0 ELSE Head(b) + 256 * FromBytes(Tail(b))

\* the w bytes at the cursor
BytesAt(stream, it, w) == SubSeq(stream, it + 1, it + w)

\* convert::to_string(void*): std::hex << std::showbase << uintptr_t; showbase
\* writes no "0x" in front of the value zero
HexDigit(d) == IF d < 10 THEN 48 + d ELSE 87 + d

RECURSIVE HexDigits(_)
HexDigits(n) == IF n < 16 THEN <<HexDigit(n)>> ELSE HexDigits(n \div 16) \o <<HexDigit(n % 16)>>

to_string(ptr) == IF ptr = 0 THEN <<48>> ELSE <<48, 120>> \o HexDigits(ptr)

\* convert::from_string<void*>: istr >> result reads a hexadecimal number with an
\* optional leading "0x"
HexValue(c) == IF c >= 48 /\ c <= 57 THEN c - 48 ELSE c - 87

RECURSIVE ParseHex(_, _)
ParseHex(str, acc) ==
    IF str = <<>> THEN acc ELSE ParseHex(Tail(str), 16 * acc + HexValue(Head(str)))

from_string(str) ==
    IF Len(str) >= 2 /\ str[1] = 48 /\ str[2] = 120
    THEN ParseHex(SubSeq(str, 3, Len(str)), 0)
    ELSE ParseHex(str, 0)

\* traits<std::string>::serialize: the size, then the characters
string_serialize(str) == ToBytes(Len(str), SizeofSizeT) \o str

\* traits<std::string>::deserialize: the characters, and the cursor after them
string_size(stream, it) == FromBytes(BytesAt(stream, it, SizeofSizeT))

string_end_mutant_no_size(stream, it) == it + string_size(stream, it)

string_end(stream, it) == it + SizeofSizeT + string_size(stream, it)

string_deserialize(stream, it) ==
    [val |-> BytesAt(stream, it + SizeofSizeT, string_size(stream, it)),
     it |-> string_end(stream, it)]

\* traits<xpod::type>::serialize: the index byte, then the alternative's data
xpod_serialize(val) ==
    <<val.index>> \o
    CASE val.index = 0 -> ToBytes(val.integer, SizeofLongLong)
      [] val.index = 1 -> ToBytes(val.number, SizeofDouble)
      [] val.index = 2 -> ToBytes(IF val.boolean THEN 1 ELSE 0, SizeofBool)
      [] val.index = 3 -> string_serialize(to_string(val.pointer))
      [] val.index = 4 -> string_serialize(val.string)

\* traits<xpod::type>::deserialize
xpod_deserialize(stream, it) ==
    LET valIndex == stream[it + 1]
        localIt == it + 1
        str == string_deserialize(stream, localIt)
    IN  CASE valIndex = 0 ->
               [val |-> [T |-> "xpod", index |-> 0,
                         integer |-> FromBytes(BytesAt(stream, localIt, SizeofLongLong))],
                it |-> localIt + SizeofLongLong]
          [] valIndex = 1 ->
               [val |-> [T |-> "xpod", index |-> 1,
                         number |-> FromBytes(BytesAt(stream, localIt, SizeofDouble))],
                it |-> localIt + SizeofDouble]
          [] valIndex = 2 ->
               [val |-> [T |-> "xpod", index |-> 2,
                         boolean |-> FromBytes(BytesAt(stream, localIt, SizeofBool)) # 0],
                it |-> localIt + SizeofBool]
          [] valIndex = 3 ->
               [val |-> [T |-> "xpod", index |-> 3, pointer |-> from_string(str.val)],
                it |-> str.it]
          [] valIndex = 4 ->
               [val |-> [T |-> "xpod", index |-> 4, string |-> str.val], it |-> str.it]
          [] OTHER -> [val |-> [T |-> "thrown"], it |-> it]

\* the type a value is serialized as; maps carry the type of their mapped values
TypeOf(val) == IF val.T \in {"map", "nested"} THEN [T |-> val.T, V |-> val.V] ELSE [T |-> val.T]

NestedOf(ty) == [T |-> "nested", V |-> ty.V]

\* traits<T>::serialize for each T
RECURSIVE traits_serialize(_)
RECURSIVE serialize_pairs(_, _)
serialize_pairs(m, ks) ==
    IF ks = <<>> THEN <<>>
    ELSE ToBytes(Head(ks), SizeofInt) \o traits_serialize(m[Head(ks)])
         \o serialize_pairs(m, Tail(ks))

traits_serialize(val) ==
    CASE val.T = "int" -> ToBytes(val.i, SizeofInt)
      [] val.T = "string" -> string_serialize(val.s)
      [] val.T = "xpod" -> xpod_serialize(val)
      [] val.T = "map" ->
           ToBytes(Cardinality(DOMAIN val.m), SizeofSizeT)
           \o serialize_pairs(val.m, SortedKeys(DOMAIN val.m))
      [] val.T = "nested" ->
           traits_serialize([T |-> "map", V |-> val.V, m |-> val.data])
           \o traits_serialize([T |-> "map", V |-> NestedOf(val), m |-> val.sub_tables])

\* traits<T>::deserialize for each T: the value and the cursor after it
RECURSIVE traits_deserialize(_, _, _)
RECURSIVE deserialize_pairs(_, _, _, _, _)
deserialize_pairs(stream, it, n, V, acc) ==
    IF n = 0 THEN [val |-> acc, it |-> it]
    ELSE LET key == FromBytes(BytesAt(stream, it, SizeofInt))
             value == traits_deserialize(stream, it + SizeofInt, V)
         IN  deserialize_pairs(stream, value.it, n - 1, V,
                 IF key \in DOMAIN acc THEN acc ELSE MapPut(acc, key, value.val))

traits_deserialize(stream, it, ty) ==
    CASE ty.T = "int" ->
           [val |-> [T |-> "int", i |-> FromBytes(BytesAt(stream, it, SizeofInt))],
            it |-> it + SizeofInt]
      [] ty.T = "string" ->
           [val |-> [T |-> "string", s |-> string_deserialize(stream, it).val],
            it |-> string_deserialize(stream, it).it]
      [] ty.T = "xpod" -> xpod_deserialize(stream, it)
      [] ty.T = "map" ->
           LET m == deserialize_pairs(stream, it + SizeofSizeT,
                                      FromBytes(BytesAt(stream, it, SizeofSizeT)),
                                      ty.V, EmptyMap)
           IN  [val |-> [T |-> "map", V |-> ty.V, m |-> m.val], it |-> m.it]
      [] ty.T = "nested" ->
           LET data == traits_deserialize(stream, it, [T |-> "map", V |-> ty.V])
               sub_tables == traits_deserialize(stream, data.it,
                                                [T |-> "map", V |-> NestedOf(ty)])
           IN  [val |-> [T |-> "nested", V |-> ty.V, data |-> data.val.m,
                         sub_tables |-> sub_tables.val.m],
                it |-> sub_tables.it]

\* the values the callers serialize
IntVal(v) == [T |-> "int", i |-> v]
StrVal(v) == [T |-> "string", s |-> v]
Xpod(index, v) ==
    CASE index = 0 -> [T |-> "xpod", index |-> 0, integer |-> v]
      [] index = 1 -> [T |-> "xpod", index |-> 1, number |-> v]
      [] index = 2 -> [T |-> "xpod", index |-> 2, boolean |-> v]
      [] index = 3 -> [T |-> "xpod", index |-> 3, pointer |-> v]
      [] index = 4 -> [T |-> "xpod", index |-> 4, string |-> v]
MapVal(V, m) == [T |-> "map", V |-> V, m |-> m]
NestedVal(V, data, sub_tables) ==
    [T |-> "nested", V |-> V, data |-> data, sub_tables |-> sub_tables]

XpodVals ==
    {Xpod(0, 1), Xpod(0, 65536 + 2), Xpod(1, 1023 * 256), Xpod(2, TRUE), Xpod(2, FALSE),
     Xpod(3, 0), Xpod(3, 4011), Xpod(3, 65535 * 256 + 255), Xpod(4, <<>>), Xpod(4, <<51>>)}

SerVals ==
    {IntVal(0), IntVal(258), StrVal(<<>>), StrVal(<<97, 98>>)}
    \cup XpodVals
    \cup {MapVal([T |-> "xpod"], EmptyMap),
          MapVal([T |-> "xpod"], MapPut(MapPut(EmptyMap, 2, Xpod(3, 4011)), 1, Xpod(4, <<51>>))),
          MapVal([T |-> "string"], MapPut(EmptyMap, 7, StrVal(<<97>>))),
          NestedVal([T |-> "xpod"], EmptyMap, EmptyMap),
          NestedVal([T |-> "xpod"], MapPut(EmptyMap, 1, Xpod(2, TRUE)),
                    MapPut(MapPut(EmptyMap, 5,
                                  NestedVal([T |-> "xpod"], MapPut(EmptyMap, 3, Xpod(0, 1)),
                                            EmptyMap)),
                           4, NestedVal([T |-> "xpod"], EmptyMap, EmptyMap)))}

SerSequences == UNION {[1..n -> SerVals] : n \in 1..MaxSerVals}

\* the caller chooses the values it is going to serialize into an empty buffer
serialize_begin(values) ==
    /\ serVals = <<>>
    /\ OnlySer
    /\ serVals' = values
    /\ UNCHANGED <<serStream, serEnds, serOut, serIt>>

\* traits<T>::serialize(val, stream) of the next value
serialize_next ==
    /\ OnlySer
    /\ Len(serEnds) < Len(serVals)
    /\ serStream' = serStream \o traits_serialize(serVals[Len(serEnds) + 1])
    /\ serEnds' = Append(serEnds, Len(serStream'))
    /\ UNCHANGED <<serVals, serOut, serIt>>

\* traits<T>::deserialize(it, val) of the next value, once all are serialized
deserialize_next ==
    /\ OnlySer
    /\ serVals # <<>> /\ Len(serEnds) = Len(serVals)
    /\ Len(serOut) < Len(serVals)
    /\ LET r == traits_deserialize(serStream, serIt, TypeOf(serVals[Len(serOut) + 1]))
       IN  /\ serOut' = Append(serOut, r.val)
           /\ serIt' = r.it
    /\ UNCHANGED <<serVals, serStream, serEnds>>

InitSer ==
    /\ serVals = <<>>
    /\ serStream = <<>>
    /\ serEnds = <<>>
    /\ serOut = <<>>
    /\ serIt = 0

NextSer ==
    \/ \E values \in SerSequences : serialize_begin(values)
    \/ serialize_next
    \/ deserialize_next

(***************************************************************************)
(* lifecycle::item_registry. irLive is not a field of the class: it counts, *)
(* per identifier, the registrations that received it from register_item   *)
(* and have not been deregistered.                                         *)
(***************************************************************************)
MaxItemNumber == 3
LimitedItems == 2

ItemNumbers == 0..MaxItemNumber

NotConstructed == -1

Min(S) == CHOOSE x \in S : \A y \in S : x <= y

\* item_registry(max_number_of_items): zero is the unlimited mode
item_registry(max_number_of_items) ==
    /\ irMax = NotConstructed
    /\ OnlyItemRegistry
    /\ irMax' = max_number_of_items
    /\ irAvail' = 0..(max_number_of_items - 1)
    /\ irOp' = [op |-> "item_registry", res |-> "ok"]
    /\ UNCHANGED <<irNext, irLive>>

\* register_item throws overflow_error: limited mode with no identifier available
register_overflows == irMax > 0 /\ irAvail = {}

\* register_item's result: the smallest recycled identifier, else a never-used one
register_result == IF irAvail # {} THEN Min(irAvail) ELSE irNext

register_item ==
    /\ irMax # NotConstructed
    /\ irNext < MaxItemNumber
    /\ OnlyItemRegistry
    /\ IF register_overflows
       THEN /\ irOp' = [op |-> "register_item", res |-> "overflow_error"]
            /\ UNCHANGED <<irAvail, irNext, irLive>>
       ELSE LET item_number == register_result
            IN  /\ irOp' = [op |-> "register_item", res |-> "ok", n |-> item_number]
                /\ irAvail' = irAvail \ {item_number}
                /\ irNext' = IF irAvail = {} THEN irNext + 1 ELSE irNext
                /\ irLive' = [irLive EXCEPT ![item_number] = @ + 1]
    /\ UNCHANGED irMax

\* deregister_item's checks: the range in limited mode, then _available_numbers
deregister_throws(item_number) ==
    \/ irMax > 0 /\ item_number >= irMax
    \/ item_number \in irAvail

deregister_item(item_number) ==
    /\ irMax # NotConstructed
    /\ OnlyItemRegistry
    /\ IF deregister_throws(item_number)
       THEN /\ irOp' = [op |-> "deregister_item", res |-> "runtime_error", n |-> item_number]
            /\ UNCHANGED <<irAvail, irLive>>
       ELSE /\ irOp' = [op |-> "deregister_item", res |-> "ok", n |-> item_number]
            /\ irAvail' = irAvail \cup {item_number}
            /\ irLive' = [irLive EXCEPT ![item_number] = IF @ > 0 THEN @ - 1 ELSE 0]
    /\ UNCHANGED <<irMax, irNext>>

InitItemRegistry ==
    /\ irMax = NotConstructed
    /\ irNext = 0
    /\ irAvail = {}
    /\ irLive = [n \in ItemNumbers |-> 0]
    /\ irOp = [op |-> "none", res |-> "ok"]

NextItemRegistry ==
    \/ \E max_number_of_items \in {0, LimitedItems} : item_registry(max_number_of_items)
    \/ register_item
    \/ \E item_number \in ItemNumbers : deregister_item(item_number)

(***************************************************************************)
(* message_manager::set_logger next to send_message and a handler's        *)
(* on_message, for the message ids LgIds.                                  *)
(***************************************************************************)
LgIds == {1, 2}
LgThreads == {"u1", "u2"}
LgPayload == 1
MaxLgQueued == 2     \* payloads waiting in one queue
NoLogger == "none"   \* an empty std::function
Logger == "L"

LgIdle == [pc |-> "idle"]
\* _message_queues has no element for the id
NoEntry == [state |-> "absent"]
\* _message_queues has an element for the id that holds a null shared_ptr
NullEntry == [state |-> "null"]
\* std::make_shared<message_queue>()
NewQueue == [state |-> "queue", message_logger |-> NoLogger, queue |-> <<>>]

\* a thread dereferenced a null shared_ptr<message_queue>: the process is gone
LgFault == \E t \in LgThreads : lgPc[t].pc = "fault"

\* some thread holds _message_queues_mutex
LgQueuesLocked == \E t \in LgThreads : lgPc[t].pc = "s_create"

\* send_message, first half of the locked block: queue = _message_queues[id];
\* operator[] inserts a null shared_ptr for an id that has no element
send_lookup(t, id) ==
    /\ ~LgFault
    /\ lgPc[t] = LgIdle
    /\ ~LgQueuesLocked
    /\ lgQueues[id].state = "queue" => Len(lgQueues[id].queue) < MaxLgQueued
    /\ OnlyLogger
    /\ lgQueues' = [lgQueues EXCEPT ![id] = IF @ = NoEntry THEN NullEntry ELSE @]
    /\ lgPc' = [lgPc EXCEPT ![t] = [pc |-> "s_create", id |-> id]]
    /\ UNCHANGED lgCalls

\* send_message, second half of the locked block: if (!queue) the queue is made
send_create(t) ==
    /\ ~LgFault
    /\ lgPc[t].pc = "s_create"
    /\ OnlyLogger
    /\ lgQueues' = [lgQueues EXCEPT ![lgPc[t].id] = IF @ = NullEntry THEN NewQueue ELSE @]
    /\ lgPc' = [lgPc EXCEPT ![t] = [pc |-> "s_enqueue", id |-> lgPc[t].id]]
    /\ UNCHANGED lgCalls

\* send_message: queue->queue.emplace_back(message_data) under the queue mutex
send_enqueue_logged(t) ==
    /\ ~LgFault
    /\ lgPc[t].pc = "s_enqueue"
    /\ OnlyLogger
    /\ lgQueues' = [lgQueues EXCEPT ![lgPc[t].id].queue = Append(@, LgPayload)]
    /\ lgPc' = [lgPc EXCEPT ![t] = [pc |-> "s_log", id |-> lgPc[t].id]]
    /\ UNCHANGED lgCalls

\* the calls of a logger, if one is set
LoggerCalls(logger, id, p, outgoing) ==
    IF logger = NoLogger
    THEN {}
    ELSE {[fn |-> logger, id |-> id, p |-> p, outgoing |-> outgoing]}

\* send_message: if (queue->message_logger) message_logger(id, data, true)
send_log(t) ==
    /\ ~LgFault
    /\ lgPc[t].pc = "s_log"
    /\ OnlyLogger
    /\ lgCalls' = lgCalls \cup
                      LoggerCalls(lgQueues[lgPc[t].id].message_logger, lgPc[t].id,
                                  LgPayload, TRUE)
    /\ lgPc' = [lgPc EXCEPT ![t] = LgIdle]
    /\ UNCHANGED lgQueues

\* a handler of id: get_message pops a payload, on_message calls the logger, if
\* one is set, with outgoing = false and then _on_message
logged_on_message(id) ==
    /\ ~LgFault
    /\ lgQueues[id].state = "queue"
    /\ lgQueues[id].queue # <<>>
    /\ OnlyLogger
    /\ lgQueues' = [lgQueues EXCEPT ![id].queue = Tail(@)]
    /\ lgCalls' = lgCalls
                      \cup LoggerCalls(lgQueues[id].message_logger, id,
                                       Head(lgQueues[id].queue), FALSE)
                      \cup {[fn |-> "on_message", id |-> id,
                             p |-> Head(lgQueues[id].queue), outgoing |-> FALSE]}
    /\ UNCHANGED lgPc

\* set_logger: _message_queues[message_id]->message_logger_mutex is locked and
\* message_logger assigned, without _message_queues_mutex; operator[] inserts a null
\* shared_ptr for an id that has no element, and operator-> of a null shared_ptr
\* is dereferenced
set_logger(t, id, on_message) ==
    /\ ~LgFault
    /\ lgPc[t] = LgIdle
    /\ OnlyLogger
    /\ IF lgQueues[id].state = "queue"
       THEN /\ lgQueues' = [lgQueues EXCEPT ![id].message_logger = on_message]
            /\ UNCHANGED lgPc
       ELSE /\ lgQueues' = [lgQueues EXCEPT ![id] = NullEntry]
            /\ lgPc' = [lgPc EXCEPT ![t] = [pc |-> "fault", id |-> id]]
    /\ UNCHANGED lgCalls

InitLogger ==
    /\ lgQueues = [id \in LgIds |-> NoEntry]
    /\ lgPc = [t \in LgThreads |-> LgIdle]
    /\ lgCalls = {}

NextLogger ==
    \/ \E t \in LgThreads, id \in LgIds : send_lookup(t, id)
    \/ \E t \in LgThreads : send_create(t)
    \/ \E t \in LgThreads : send_enqueue_logged(t)
    \/ \E t \in LgThreads : send_log(t)
    \/ \E id \in LgIds : logged_on_message(id)
    \/ \E t \in LgThreads, id \in LgIds, L \in {Logger, NoLogger} : set_logger(t, id, L)

Init ==
    /\ InitMap /\ InitSRB /\ InitMM /\ InitCMap /\ InitSingleton /\ InitSRBC /\ InitBuf
    /\ InitNamedMutex /\ InitShm /\ InitSer /\ InitItemRegistry
    /\ InitLogger

SpecMap == Init /\ [][NextMap]_vars

SpecSRB == Init /\ [][NextSRB]_vars

SpecSRBRaw == Init /\ [][NextSRBRaw]_vars

SpecSRBAppend == Init /\ [][NextSRBAppend]_vars

SpecMM == Init /\ [][NextMM]_vars

SpecMMD == Init /\ [][NextMMD]_vars

SpecMMJ == Init /\ [][NextMMJ]_vars /\ \A t \in Threads : WF_vars(ThreadStep(t))

\* fair scheduling: a thread that can take its next step eventually takes it
SpecMMW == Init /\ [][NextMMW]_vars /\ \A t \in Threads : WF_vars(ThreadStep(t))

SpecMMK == Init /\ [][NextMMK]_vars

SpecMMO == Init /\ [][NextMMO]_vars

SpecLogger == Init /\ [][NextLogger]_vars

SpecCMap == Init /\ [][NextCMap]_vars

SpecCMapUpdate == Init /\ [][NextCMapUpdate]_vars

SpecSingleton == Init /\ [][NextSingleton]_vars

SpecSgOperational == Init /\ [][NextSgOperational]_vars

SpecSgLifetime == Init /\ [][NextSgLifetime]_vars

SpecSgDtor == Init /\ [][NextSgDtor]_vars

SpecSgThrow == Init /\ [][NextSgThrow]_vars

SpecTeardown == Init /\ [][NextTeardown]_vars

SpecSRBC == Init /\ [][NextSRBC]_vars

SpecBuf == Init /\ [][NextBuf]_vars

SpecNamedMutex == Init /\ [][NextNamedMutex]_vars

SpecShm == Init /\ [][NextShm]_vars

SpecSer == Init /\ [][NextSer]_vars

SpecItemRegistry == Init /\ [][NextItemRegistry]_vars

(***************************************************************************)
(* C1: when wait_until_empty returns, the queue is empty, the busy count   *)
(* is 0, and every payload that was enqueued before the call looked the    *)
(* queue up has been passed to on_message once and that invocation has     *)
(* finished (normally or by delivery to on_exception).                     *)
(***************************************************************************)
C1_WaitReturnsWhenDrained ==
    [][\A t \in Threads :
          pc[t].pc # "w_ret" /\ pc'[t].pc = "w_ret" =>
              /\ queue' = <<>>
              /\ busy' = 0
              /\ \A p \in snap'[t] : status'[p] = "done" /\ handled'[p] = 1]_vars

C1_Witness ==
    \E t \in Clients :
        /\ pc[t].pc = "w_ret"
        /\ snap[t] = Payloads
        /\ Cardinality(Registered) = Cardinality(Handlers)

(***************************************************************************)
(* C2: a sender that send_message(id, p, k) has blocked does not stay      *)
(* blocked once the queue holds fewer than k payloads: when no call in     *)
(* progress and no worker has a step left to take while a handler is       *)
(* waiting for work, every blocked sender faces a queue of at least k.     *)
(***************************************************************************)
C2_BlockedSenderResumes ==
    \A t \in Threads :
        (/\ pc[t].pc = "s_wait"
         /\ \E h \in Handlers : pc[h].pc = "h_wait"
         /\ ~crashed
         /\ ~ENABLED MMProgress)
        => Len(queue) >= pc[t].k

(***************************************************************************)
(* C7: a dispose that has been called returns: while one is in progress,   *)
(* the call itself, a worker or a call made from on_message can take a     *)
(* step.                                                                   *)
(***************************************************************************)
C7_DisposeReturns ==
    \A t \in Clients :
        pc[t].pc \in {"d_clear", "d_lock", "d_notify", "d_join"} /\ ~crashed
        => ENABLED MMDProgress

(***************************************************************************)
(* C8: no payload is passed to on_message twice, and when a handler is     *)
(* registered and neither a call in progress nor a worker has a step left  *)
(* to take, every enqueued payload has been passed to on_message once.     *)
(***************************************************************************)
C8_EveryPayloadHandledOnce ==
    /\ \A p \in Payloads : handled[p] <= 1
    /\ (Registered # {} /\ ~ENABLED MMProgress) =>
          \A p \in Enqueued : handled[p] = 1

C12_EmptyWhileShutDown ==
    /\ [](sResetDone => \A n \in SgNames : sInstances[n] = NoInstance)
    /\ [][\A t \in SgThreads :
             (sResetDone /\ spc[t].pc # "g_ret" /\ spc'[t].pc = "g_ret")
             => (spc'[t].res = NoInstance /\ sObjs' = sObjs)]_vars

(***************************************************************************)
(* C13: a reset() (or destruction) made while the registry is shut down    *)
(* completes without error: the object ends up holding no buffer and the   *)
(* process is still running.                                               *)
(***************************************************************************)
C13_ResetCompletesAfterShutdown ==
    srbOp.op = "reset_shut_down" => (~srbCrashed /\ inst[srbOp.i] = NoBuffer)

(***************************************************************************)
(* C14: when on_message throws a std::exception, with or without an        *)
(* on_exception callback, the worker goes on: the process keeps running    *)
(* and the handler proceeds to decrement the busy count for that payload.  *)
(***************************************************************************)
C14_ThrowKeepsWorkerRunning ==
    [][\A h \in Handlers :
          on_message_throw(h) => (~crashed' /\ pc'[h].pc = "m_dec")]_vars

(***************************************************************************)
(* C15: when every sender passes the same max_queued_messages = k > 0, the *)
(* queue never holds more than k payloads.                                 *)
(***************************************************************************)
C15_QueueBounded == Len(queue) <= MaxQueued

C15_Witness ==
    /\ Len(queue) = MaxQueued
    /\ \E t \in Clients : pc[t].pc = "s_wait" /\ pc[t].k = MaxQueued
    /\ \E h \in Handlers : pc[h].pc = "h_wait"

(***************************************************************************)
(* C16: with exactly one handler (payloads are numbered in the order the   *)
(* one sender enqueues them), a FIFO handler dequeues the oldest queued    *)
(* payload and a FILO handler the most recently enqueued one that is still *)
(* queued; a FIFO handler's on_message runs in the order of the enqueues.  *)
(***************************************************************************)
C16_SingleHandlerOrder ==
    /\ [][\A h \in Handlers :
             (pc[h].pc = "h_lock" /\ pc'[h].pc = "h_check" /\ pc'[h].msg # NoPayload)
             => /\ cfg[h].order = "FIFO" =>
                     \A i \in 1..Len(queue) : pc'[h].msg <= queue[i]
                /\ cfg[h].order = "FILO" =>
                     \A i \in 1..Len(queue) : pc'[h].msg >= queue[i]]_vars
    /\ [](\A h \in Handlers :
             (cfg[h].order = "FIFO" /\ pc[h].pc = "m_user")
             => \A p \in Payloads : p < pc[h].msg => handled[p] = 1)

C16_Witness ==
    \E h \in Handlers :
        /\ cfg[h].order = "FILO"
        /\ pc[h].pc = "m_user" /\ pc[h].msg = 2
        /\ queue = <<1>>

(***************************************************************************)
(* C17: when dispose has joined a handler's thread, the handler's on_exit  *)
(* callback has been invoked exactly once on that thread.                  *)
(***************************************************************************)
C17_OnExitRunsOnce ==
    \A h \in Handlers : pc[h].pc = "joined" => pc[h].on_exit_calls = 1

(***************************************************************************)
(* C18: an instance that comes to hold a known address without an          *)
(* allocation (from the raw address, or as a copy of another instance)     *)
(* adds exactly one to that address's count and changes no other entry,    *)
(* and unless it is a copy its size is 0; append on an instance with a     *)
(* base and size 0 throws and changes neither the RC map nor any instance. *)
(***************************************************************************)
C18_RawWrapperRejectsAppend ==
    [][/\ \A i \in Insts, a \in Addrs :
            (/\ is_known(a)
             /\ inst[i] = NoBuffer
             /\ inst'[i].buf = a
             /\ heap' = heap /\ tpc' = tpc
             /\ \A j \in Insts \ {i} : inst'[j] = inst[j])
            => /\ inst'[i].size = 0 \/ \E j \in Insts \ {i} : inst[j] = inst'[i]
               /\ rc' = MapPut(rc, a, rc[a] + 1)
       /\ (/\ srbOp'.op = "append"
           /\ inst[srbOp'.i].buf # 0
           /\ inst[srbOp'.i].size = 0)
          => (srbOp'.thrown /\ rc' = rc /\ inst' = inst /\ heap' = heap)]_vars

C18_Witness ==
    /\ srbOp.op = "append" /\ srbOp.thrown
    /\ inst[srbOp.i].buf # 0 /\ inst[srbOp.i].size = 0
    /\ rc[inst[srbOp.i].buf] = 2

(***************************************************************************)
(* C19: with threads copying, resetting and appending on their own objects *)
(* that share blocks, no count transition is lost and each block is freed  *)
(* once, by the transition to zero: free is never called on a block that   *)
(* is not allocated, an object of a thread that is outside any operation   *)
(* never refers to a freed block, and whenever no operation is in progress *)
(* each address's count equals the number of objects holding it, with the  *)
(* blocks nobody holds freed and unknown.                                  *)
(***************************************************************************)
C19_CountTransitionsOrdered ==
    /\ ~badFree
    /\ \A t \in RcThreads, k \in Slots :
          (rpc[t] = RcIdle /\ tinst[t][k] # 0) => tinst[t][k] \in heap
    /\ Quiet =>
          \A a \in Addrs :
             IF Holders(a) = 0
             THEN a \notin heap /\ a \notin DOMAIN rc
             ELSE a \in heap /\ a \in DOMAIN rc /\ rc[a] = Holders(a)

C19_Witness ==
    /\ rpc["r1"].pc = "ap_cow"
    /\ rpc["r2"].pc = "cc_lock"
    /\ Holders(tinst["r1"][1]) = 4

(***************************************************************************)
(* C20: buffer(address, n) is never aborted, and once it has returned the  *)
(* buffer has size n, its bytes 0..n-1 equal the n source bytes, and no    *)
(* byte outside the n-byte block was written.                              *)
(***************************************************************************)
C20_CtorCopiesWithinBounds ==
    /\ bufpc # "aborted"
    /\ bufpc = "done" =>
          /\ bufSize = Len(bufSrc)
          /\ bufMem = bufSrc
          /\ bufOutside = {}

(***************************************************************************)
(* C21: while the registry stays operational, T is constructed exactly     *)
(* once per requested name: the number of objects ever constructed equals  *)
(* the number of registered names, every get for a name returns the object *)
(* registered for that name, every handle a caller holds is to a           *)
(* registered object, and no object is destroyed.                          *)
(***************************************************************************)
C21_ConstructedOncePerName ==
    /\ sObjs = Cardinality({n \in SgNames : sInstances[n] # NoInstance})
    /\ \A t \in SgThreads :
          /\ spc[t].pc = "g_ret" =>
                (spc[t].res # NoInstance /\ spc[t].res = sInstances[spc[t].name])
          /\ spc[t].pc # "g_throw"
          /\ \A o \in sHandles[t] : IsRegistered(o)
    /\ \A o \in 1..MaxObjs : sDestroyed[o] = 0

C21_Witness ==
    /\ spc["s1"].pc = "g_ret" /\ spc["s2"].pc = "g_ret"
    /\ spc["s1"].name = spc["s2"].name
    /\ spc["s1"].res = spc["s2"].res
    /\ spc["s1"].res # NoInstance
    /\ sObjs = 1

(***************************************************************************)
(* C22: each singleton instance is destroyed exactly once, and exactly     *)
(* when it has neither a registry entry nor a caller handle left: an       *)
(* object that was constructed is destroyed (once) if and only if no name  *)
(* is registered to it and no caller holds or is being returned a handle   *)
(* to it; a caller dropping a handle leaves the registry unchanged and     *)
(* does not destroy an object that is registered.                          *)
(***************************************************************************)
C22_DestroyedExactlyOnce ==
    /\ [](\A o \in 1..MaxObjs :
            /\ sDestroyed[o] <= 1
            /\ sDestroyed[o] = 1 <=>
                  (o <= sObjs /\ ~IsRegistered(o) /\ Holders_of(o) = {}))
    /\ [][\A t \in SgThreads, o \in 1..MaxObjs :
            drop_handle(t, o) =>
               /\ sInstances' = sInstances
               /\ IsRegistered(o) => sDestroyed' = sDestroyed]_vars

C22_Witness ==
    /\ sDestroyed[1] = 1
    /\ sDestroyed[2] = 0
    /\ ~IsRegistered(2)
    /\ 2 \in sHandles["s1"]
    /\ IsRegistered(3)
    /\ 3 \notin sHandles["s1"] /\ 3 \notin sHandles["s2"]

(***************************************************************************)
(* C23: get<T>(name) for a name registered with another type throws and    *)
(* leaves the registry unchanged (same entries, same objects, none         *)
(* destroyed, no handle handed out); get with the entry's own type returns *)
(* the registered object; get throws in no other case.                     *)
(***************************************************************************)
C23_TypeConflictLeavesRegistry ==
    [][\A t \in SgThreads :
         get_locked(t) =>
            LET name == spc[t].name
                entry == sInstances[name]
            IN  IF entry # NoInstance /\ sTypeOf[entry] # spc[t].T
                THEN /\ spc'[t].pc = "g_throw"
                     /\ sInstances' = sInstances /\ sObjs' = sObjs
                     /\ sTypeOf' = sTypeOf /\ sDestroyed' = sDestroyed
                     /\ sHandles' = sHandles
                ELSE /\ spc'[t].pc = "g_ret"
                     /\ spc'[t].res = sInstances'[name]
                     /\ sTypeOf'[spc'[t].res] = spc[t].T
                     /\ entry # NoInstance =>
                           (sInstances' = sInstances /\ sObjs' = sObjs)]_vars

C23_Witness ==
    /\ spc["s1"].pc = "g_throw" /\ spc["s1"].name = "n1"
    /\ spc["s2"].pc = "g_ret" /\ spc["s2"].name = "n1"
    /\ spc["s2"].res = sInstances["n1"]
    /\ sTypeOf[sInstances["n1"]] = "U"

(***************************************************************************)
(* C24: at most one thread at a time is between a lock() that returned and *)
(* its matching unlock(), whatever named_recursive_mutex objects of the    *)
(* name are constructed or destroyed meanwhile.                            *)
(***************************************************************************)
C24_OneHolderPerName ==
    Cardinality({t \in NmThreads : nmHeld[t] > 0}) <= 1

(***************************************************************************)
(* C25: constructing an interprocess_shared_memory for an identifier whose *)
(* segment exists leaves the segment's size and bytes as they are, and     *)
(* capacity() of the new object is the size of the existing segment.       *)
(***************************************************************************)
C25_CapacityFixedByFirstCreation ==
    [][\A h \in ShmHolders, nbytes \in ShmSizes :
         (shmName # 0 /\ shm_construct(h, nbytes)) =>
            /\ shmSegs' = shmSegs
            /\ region_capacity(h)' = Len(shmSegs[shmName])]_vars

(***************************************************************************)
(* C26: the name stays attached to its segment while a holder is alive:    *)
(* destroying one holder while another is alive leaves the name attached,  *)
(* so all live holders map the same shared memory object.                  *)
(***************************************************************************)
C26_SegmentLivesUntilLastHolder ==
    /\ [](\A g \in ShmHolders, h \in ShmHolders :
            (shmObjs[g] # NoRegion /\ shmObjs[h] # NoRegion) =>
               shmObjs[g].seg = shmObjs[h].seg)
    /\ [][\A h \in ShmHolders :
            (shm_destroy(h) /\ \E g \in ShmHolders \ {h} : shmObjs[g] # NoRegion) =>
               shmName' = shmName]_vars

(***************************************************************************)
(* C27: update(k, f) on an absent key throws and leaves the segment as it  *)
(* is; on a present key it commits f applied to the stored value and       *)
(* returns that value; updates made by several threads are applied one     *)
(* after the other, so the segment holds the map obtained by applying      *)
(* every completed update once (plain) whenever the lock is free.          *)
(***************************************************************************)
C27_UpdateCommitsUnderLock ==
    /\ [](cmtx = "none" => deserialize(seg) = plain)
    /\ [][\A t \in MapThreads :
            (cpc[t].pc \in {"written", "thrown"} /\ cpc[t].op.op = "update" /\ map_unlock(t))
            => LET key == cpc[t].op.key
               IN  IF key \in DOMAIN plain
                   THEN /\ cpc[t].pc = "written"
                        /\ cpc[t].local[key] = ApplyUpdater(cpc[t].op.updater, plain[key])
                        /\ deserialize(seg') =
                              MapPut(plain, key, ApplyUpdater(cpc[t].op.updater, plain[key]))
                        /\ plain' = deserialize(seg')
                   ELSE /\ cpc[t].pc = "thrown"
                        /\ deserialize(seg') = plain
                        /\ plain' = plain]_vars

C27_Witness ==
    /\ cpc["m2"].pc = "written" /\ cpc["m2"].op.op = "update"
    /\ cpc["m2"].op.key = 1
    /\ 1 \in DOMAIN plain /\ plain[1] = 1
    /\ cpc["m2"].local[1] = ApplyUpdater("inc", 1)
    /\ deserialize(seg) = cpc["m2"].local

(***************************************************************************)
(* C28: values serialized in order into one buffer are recovered by        *)
(* deserializing in the same order from its start: the values read so far  *)
(* equal the values written, and after each deserialize the cursor stands  *)
(* where the matching serialize ended.                                     *)
(***************************************************************************)
C28_SequenceRoundTrip ==
    /\ serOut = SubSeq(serVals, 1, Len(serOut))
    /\ serIt = IF serOut = <<>> THEN 0 ELSE serEnds[Len(serOut)]

C28_Witness ==
    /\ Len(serVals) = MaxSerVals /\ serOut = serVals
    /\ serVals[1].T = "nested" /\ DOMAIN serVals[1].sub_tables = {4, 5}
    /\ serVals[2] = Xpod(3, 65535 * 256 + 255)
    /\ serVals[3] = StrVal(<<97, 98>>)
    /\ serIt = Len(serStream)

(***************************************************************************)
(* C29: no identifier is held by two live registrations at once, and       *)
(* deregister_item of an identifier that no live registration holds fails  *)
(* with runtime_error and leaves the registry as it was.                   *)
(***************************************************************************)
C29_NoIdentifierHeldTwice == \A n \in ItemNumbers : irLive[n] <= 1

(***************************************************************************)
(* C30: while the process runs, the busy count equals the number of        *)
(* handlers that hold a dequeued payload, from get_message until           *)
(* on_message decrements the count; with no such handler it is 0.          *)
(***************************************************************************)
C30_BusyCountsInFlightPayloads ==
    ~crashed =>
        busy = Cardinality({h \in Handlers :
                              "msg" \in DOMAIN pc[h] /\ pc[h].msg # NoPayload})

(***************************************************************************)
(* C31: leaving a delay_deallocation scope decrements only blocks that     *)
(* were created while this scope was active, and every block a live        *)
(* instance refers to, also one that an append inside the scope moved to a *)
(* new address, stays allocated and known with a count of at least its     *)
(* number of live instances.                                               *)
(***************************************************************************)
C31_ScopeExitReleasesOwnBlocks ==
    [][\A t \in SrbThreads :
          delay_deallocation_exit(t) =>
              LET s == scopes[t][Len(scopes[t])]
              IN  /\ \A a \in (DOMAIN rc \ {0}) \ s.born :
                        a \in DOMAIN rc' /\ rc'[a] = rc[a]
                  /\ \A a \in Addrs :
                        Refs(a) > 0 =>
                            a \in DOMAIN rc' /\ rc'[a] >= Refs(a) /\ a \in heap']_vars

(***************************************************************************)
(* C32: the initial count for new blocks, stored under the null key of the *)
(* RC map, is 1 plus the number of delay_deallocation scopes that are      *)
(* active, in whatever order and from whatever threads they were entered   *)
(* and left.                                                               *)
(***************************************************************************)
C32_InitialCountTracksScopes == get_initial_use_count = 1 + Cardinality(LiveScopeIds)

C34_ExclusiveAppendKeepsCount ==
    [][srbOp'.op = "append" =>
          LET i == srbOp'.i
              old == inst[i].buf
              new == inst'[i].buf
          IN  /\ (is_known(old) /\ rc[old] = 1 /\ LiveScopeIds = {}) =>
                    /\ new \in DOMAIN rc' /\ rc'[new] = 1
                    /\ new # old => rc' = MapDel(MapPut(rc, new, rc[old]), old)
                    /\ new = old => rc' = rc
              /\ old = 0 =>
                    new # 0 /\ rc' = MapPut(rc, new, get_initial_use_count)]_vars

C34_Witness ==
    /\ srbOp.op = "append" /\ ~srbOp.thrown
    /\ scopesEver = 0
    /\ inst[srbOp.i].size = 2
    /\ rc = MapPut(EmptyMap, inst[srbOp.i].buf, 1)
    /\ heap = {inst[srbOp.i].buf}
    /\ mem[inst[srbOp.i].buf][2] = srbOp.data

C36_RegistryMutexNotRelocked == \A t \in SgThreads : spc[t].pc # "relock"

(***************************************************************************)
(* C37: constructing from a raw address that has no RC entry leaves the RC *)
(* map as it was and neither frees nor changes the memory at that address. *)
(***************************************************************************)
C37_UnknownAddressLeftAlone ==
    [][\A i \in Insts, a \in Addrs \cup {0} :
          raw_construct_unknown(i, a) => rc' = rc /\ heap' = heap /\ mem' = mem]_vars

(***************************************************************************)
(* C38: once every instance has been reset and every scope has been left,  *)
(* the RC map holds no address entry and every allocated block is freed.   *)
(***************************************************************************)
C38_QuiescentNothingLeft ==
    (/\ \A i \in Insts : inst[i] = NoBuffer
     /\ \A t \in SrbThreads : scopes[t] = <<>> /\ tpc[t] = Idle)
        => DOMAIN rc \subseteq {0} /\ heap = {}

(***************************************************************************)
(* C39: set_logger succeeds in every state, also for an id that has no     *)
(* queue yet and while other threads create queues: no call of it          *)
(* dereferences a missing queue.                                           *)
(***************************************************************************)
C39_SetLoggerSucceeds == \A t \in LgThreads : lgPc[t].pc # "fault"

(***************************************************************************)
(* C40: a get whose T constructor throws leaves the registry as it was, no *)
(* element for the name, and every later get, release and reset works.     *)
(***************************************************************************)
C40_ThrowingGetLeavesNoEntry ==
    /\ \A n \in SgNames : sInstances[n] # NullElement
    /\ \A t \in SgThreads : spc[t].pc # "fault"

(***************************************************************************)
(* C3: as long as no delay_deallocation scope has been entered, the RC map *)
(* entry of every address equals the number of objects referring to it, an *)
(* address without referring object has no entry and its block is freed    *)
(* (the only other allocated blocks are those of constructors in flight),  *)
(* and no count is below one.                                              *)
(***************************************************************************)
InFlightBlocks == {tpc[t].addr : t \in {u \in SrbThreads : tpc[u].pc = "ctor"}}

C3_CountEqualsInstances ==
    scopesEver = 0 =>
        /\ 0 \notin DOMAIN rc
        /\ \A a \in Addrs :
            /\ a \in DOMAIN rc <=> Refs(a) > 0
            /\ a \in DOMAIN rc => rc[a] = Refs(a) /\ rc[a] >= 1
            /\ a \in heap <=> (a \in DOMAIN rc \/ a \in InFlightBlocks)

C3_Witness ==
    /\ scopesEver = 0
    /\ \E a \in Addrs :
        /\ a \in heap /\ a \in DOMAIN rc /\ rc[a] = MaxInst
        /\ \E i \in Insts : inst[i] = [buf |-> a, size |-> 0]
    /\ \E a \in Addrs : a \notin heap /\ a \notin DOMAIN rc

(***************************************************************************)
(* C4: every object either holds no buffer (base null, size 0) or its base *)
(* address is in the RC map with a count of at least one and its block has *)
(* not been freed.                                                         *)
(***************************************************************************)
C4_InstanceHoldsLiveBlock ==
    \A i \in Insts :
        \/ inst[i] = NoBuffer
        \/ /\ inst[i].buf \in DOMAIN rc
           /\ rc[inst[i].buf] >= 1
           /\ inst[i].buf \in heap

(***************************************************************************)
(* C5: a block allocated while a delay_deallocation scope is active stays  *)
(* allocated and known to the RC map until that scope is left.             *)
(***************************************************************************)
C5_BlockOutlivesScope ==
    \A t \in SrbThreads : \A k \in DOMAIN scopes[t] :
        \A a \in scopes[t][k].born : a \in heap /\ is_known(a)

(***************************************************************************)
(* C6: an append by an object whose use count exceeds one is copy-on-write:*)
(* every other object keeps its base, its size and the bytes of its block  *)
(* (a block already freed has no bytes to keep); the appending object      *)
(* gets a different base that holds its old bytes followed by the appended *)
(* ones; the old block's count drops by one; the new block is registered   *)
(* with the initial count.                                                 *)
(***************************************************************************)
CopyOnWriteEffect(i, data) ==
    LET b == inst[i].buf
        nb == inst'[i].buf
    IN  /\ \A j \in Insts \ {i} :
            /\ inst'[j] = inst[j]
            /\ inst[j].buf \in heap => mem'[inst[j].buf] = mem[inst[j].buf]
        /\ nb # b /\ nb \notin heap /\ nb \in heap'
        /\ inst'[i].size = inst[i].size + 1
        /\ mem'[nb] = ReadBytes(b, inst[i].size) \o <<data>>
        /\ rc'[b] = rc[b] - 1
        /\ rc'[nb] = get_initial_use_count

C9_RefinesPlainMap ==
    ~everExceeded => (deserialize(seg) = plain /\ mapRes = plainRes)

C9_Witness ==
    /\ ~everExceeded
    /\ mapOp.op = "update_or_insert"
    /\ mapRes = Done
    /\ Cardinality(DOMAIN plain) = MaxPairs
    /\ \E k \in DOMAIN plain : plain[k] # 0

(***************************************************************************)
(* C10: a mutation whose re-serialized contents exceed the capacity fails  *)
(* with a runtime error and leaves the committed image unchanged: the key  *)
(* of a failed insert is absent and every committed entry keeps its value; *)
(* the encoded size of the image never exceeds the capacity.               *)
(***************************************************************************)
C10_FailedMutationKeepsImage ==
    [][/\ EncodedSize(deserialize(seg')) <= capacity
       /\ mapRes' = Thrown("capacity_exceeded") =>
             /\ seg' = seg
             /\ deserialize(seg') = deserialize(seg)
             /\ mapOp'.op = "insert" => mapOp'.key \notin DOMAIN deserialize(seg')]_vars

C10_Witness ==
    /\ mapRes = Thrown("capacity_exceeded")
    /\ mapOp.op = "insert"
    /\ Cardinality(DOMAIN deserialize(seg)) = MaxPairs

====
